---- MODULE Spec2Model ----
(***************************************************************************)
(* Streaming CSV parser (streamingCSV.parseStream), the CSV worker that    *)
(* drives it under the ack / pause / resume / abort protocol               *)
(* (workers/csvWorker.ts), and the windowed chunk cache                    *)
(* (workers/tableWorker.ts).                                               *)
(*                                                                         *)
(* Three specifications share this module:                                 *)
(*   SpecParse  parseStream driven by a plain asynchronous consumer        *)
(*   SpecCsv    csvWorker: parseStream behind the message protocol         *)
(*   SpecTable  tableWorker: chunk cache, fetches and message handlers     *)
(***************************************************************************)
EXTENDS Integers, Sequences, FiniteSets, TLC

(***************************************************************************)
(* Bounds of the model.                                                    *)
(***************************************************************************)
\* longest input, in bytes, fed to parseStream under SpecParse
MaxLen == 4
\* longest input, in bytes, fed to the worker under SpecCsv
MaxWorkerLen == 4
\* largest ack id the consumer sends
MaxAckId == 2

(***************************************************************************)
(* Bytes and characters.  A byte is one of the ASCII characters the parser *)
(* treats specially or one half of a two-byte UTF-8 sequence: LEAD TRAIL   *)
(* decodes to the single character WIDE, and a byte that is not part of a  *)
(* well-formed sequence decodes to REPLACEMENT.  WIDE and REPLACEMENT are  *)
(* ordinary field characters for the parser, as is the ASCII letter "a".   *)
(***************************************************************************)
QUOTE == "\""
COMMA == ","
LF    == "\n"
CR    == "\r"
LEAD  == "L"
TRAIL == "T"
WIDE  == "W"
REPLACEMENT == "X"

Bytes == {COMMA, QUOTE, LF, CR, LEAD, TRAIL}
WorkerBytes == {"a", LF}
BatchSizes == {1, 2}

RECURSIVE SeqsUpTo(_, _)
SeqsUpTo(S, n) ==
  IF n = 0 THEN {<<>>}
  ELSE LET shorter == SeqsUpTo(S, n - 1)
       IN shorter \cup {Append(s, x) : s \in {t \in shorter : Len(t) = n - 1}, x \in S}

RECURSIVE Flatten(_)
Flatten(ss) == IF ss = <<>> THEN <<>> ELSE Head(ss) \o Flatten(Tail(ss))

\* every way of cutting bs into consecutive non-empty chunks
RECURSIVE Cuts(_)
Cuts(bs) ==
  IF bs = <<>> THEN {<<>>}
  ELSE UNION {{<<SubSeq(bs, 1, k)>> \o rest : rest \in Cuts(SubSeq(bs, k + 1, Len(bs)))}
              : k \in 1..Len(bs)}

(***************************************************************************)
(* decoder.decode(value, {stream: true}): a stateful UTF-8 decoder.  The   *)
(* state is whether a lead byte is waiting for its trail byte.             *)
(***************************************************************************)
RECURSIVE Decode(_, _, _)
Decode(bytes, pending, acc) ==
  IF bytes = <<>> THEN [text |-> acc, pending |-> pending]
  ELSE LET b == Head(bytes) IN
    IF pending
    THEN IF b = TRAIL
         THEN Decode(Tail(bytes), FALSE, Append(acc, WIDE))
         ELSE Decode(bytes, FALSE, Append(acc, REPLACEMENT))
    ELSE IF b = LEAD THEN Decode(Tail(bytes), TRUE, acc)
         ELSE IF b = TRAIL THEN Decode(Tail(bytes), FALSE, Append(acc, REPLACEMENT))
         ELSE Decode(Tail(bytes), FALSE, Append(acc, b))

(***************************************************************************)
(* parseLine: split one record on unquoted commas, collapsing "" inside    *)
(* quotes to one quote character.                                          *)
(***************************************************************************)
RECURSIVE ParseLineFrom(_, _, _, _, _)
ParseLineFrom(line, i, q, field, row) ==
  IF i > Len(line) THEN Append(row, field)
  ELSE LET ch == line[i] IN
    IF ch = QUOTE
    THEN IF q /\ i + 1 <= Len(line) /\ line[i + 1] = QUOTE
         THEN ParseLineFrom(line, i + 2, q, Append(field, QUOTE), row)
         ELSE ParseLineFrom(line, i + 1, ~q, field, row)
    ELSE IF ch = COMMA /\ ~q
         THEN ParseLineFrom(line, i + 1, q, <<>>, Append(row, field))
         ELSE ParseLineFrom(line, i + 1, q, Append(field, ch), row)

\* parseLine on a record whose line breaks have been trimmed away
parseLine_DropsBreaks(line) ==
  ParseLineFrom(SelectSeq(line, LAMBDA ch : ch \notin {CR, LF}), 1, FALSE, <<>>, <<>>)

parseLine(line) == ParseLineFrom(line, 1, FALSE, <<>>, <<>>)


(***************************************************************************)
(* State of one parseStream call and of the csvWorker that hosts it.       *)
(***************************************************************************)
VARIABLES
  mode,          \* "direct": parseStream with plain callbacks; "worker": inside csvWorker
  kind,          \* "file" or "url": the byte source of the load
  input,         \* all bytes of the byte source, in order
  chunksLeft,    \* ByteChunks the source has not delivered yet
  batchSize,     \* options.batchSize
  pc,            \* where the load is suspended
  final,         \* the pending flush is the one after the read loop
  decPending,    \* TextDecoder state: a lead byte awaits its trail byte
  text,          \* decoded text of the ByteChunk being scanned
  pos,           \* index i of the scan loop inside text
  carry,         \* carry
  inQuotes,      \* inQuotes
  headerParsed,  \* headerParsed
  batch,         \* batch (rows not flushed yet)
  loaded,        \* loaded
  posted,        \* messages posted to the consumer (callbacks invoked), in order
  nextBatchId,   \* nextBatchId
  abortController, \* abortController: "null", "live" or "aborted"
  aborted,       \* aborted
  paused,        \* paused
  resolveAck,    \* resolveAck is non-null
  resolvePause,  \* resolvePause is non-null
  isLoading,     \* isLoading
  outcome,       \* how parseStream settled: "pending", "resolved", "AbortError", "Error"
  nReads,        \* number of reader.read() calls issued
  lastMsg,       \* history: what the last step processed (inbound message or event)
  unreleased,    \* history: a rows batch was delivered and nothing has released it since
  acked          \* history: the ids of the ack messages processed during the load

csvVars == <<mode, kind, input, chunksLeft, batchSize, pc, final, decPending, text,
             pos, carry, inQuotes, headerParsed, batch, loaded, posted, nextBatchId,
             abortController, aborted, paused, resolveAck, resolvePause, isLoading,
             outcome, nReads, lastMsg, unreleased, acked>>

(***************************************************************************)
(* State of tableWorker (the WorkerState object), its environment and      *)
(* history.                                                                *)
(***************************************************************************)
VARIABLES
  table,            \* state.table
  chunkSize,        \* state.chunkSize
  rowCount,         \* state.rowCount
  criteria,         \* state.filters and state.sort, as one value
  chunks,           \* state.chunks: chunk index -> cached chunk
  chunkAccessOrder, \* state.chunkAccessOrder
  chunkMetadata,    \* state.chunkMetadata: chunk index -> accessCount, lastAccess
  chunkETags,       \* state.chunkETags: chunk index -> etag
  inflight,         \* state.inflight: chunk index -> id of the fetch promise
  controller,       \* state.controller: "null" or "live"
  fetches,          \* pending fetchChunk calls: fetch id -> request, stage, waiters
  requests,         \* pending handleLoadRange calls: requestId -> range, loop position,
                    \* and (history) the control messages received before it
  nextFetchId,      \* number of fetchChunk calls so far
  nextRequestId,    \* number of loadRange messages so far
  tablePosted,      \* messages posted by tableWorker in the last step, in order
  now,              \* Date.now()
  serverVersion,    \* version of the table data held by the row-range service
  issued,           \* history: the chunk fetches issued in the last step, in order
  served,           \* history: the loadRange requests answered with rows in the last step
  controlCount,     \* history: init, invalidate and reset messages so far
  lastEvent         \* history: what the last step of tableWorker processed

tableVars == <<table, chunkSize, rowCount, criteria, chunks, chunkAccessOrder,
               chunkMetadata, chunkETags, inflight, controller, fetches, requests,
               nextFetchId, nextRequestId, tablePosted, now, serverVersion, issued,
               served,
               controlCount, lastEvent>>

(***************************************************************************)
(* State of the ResponseCache object (response-cache.ts), its clock and    *)
(* history.                                                                *)
(***************************************************************************)
VARIABLES
  cache,            \* this.cache: the entries of the Map, in the Map's order
  maxSize,          \* this.maxSize
  ttl,              \* this.ttl
  clock,            \* Date.now()
  lastCall          \* history: the last call on the cache and what it returned

cacheVars == <<cache, maxSize, ttl, clock, lastCall>>

DefaultMaxSize == 100
DefaultTTL == 60000

\* largest size given to setMaxSize, latest reading of the clock
MaxCacheSize == 2
MaxClock == 2

\* Number.prototype.toString(radix) of a natural number, as characters
DigitChars == <<"0", "1", "2", "3", "4", "5", "6", "7", "8", "9", "a", "b", "c",
                "d", "e", "f", "g", "h", "i", "j", "k", "l", "m", "n", "o", "p",
                "q", "r", "s", "t", "u", "v", "w", "x", "y", "z">>

RECURSIVE toString(_, _)
toString(n, radix) ==
  IF n < radix THEN <<DigitChars[n + 1]>>
  ELSE toString(n \div radix, radix) \o <<DigitChars[(n % radix) + 1]>>

\* String.prototype.charCodeAt for the characters of a decimal numeral
CharCode(ch) == 47 + (CHOOSE i \in 1..10 : DigitChars[i] = ch)

\* 32-bit two's complement arithmetic of the bit operators: the sum of two
\* int32 values after ToInt32, and hash << 5
MaxInt32 == 2147483647
MinInt32 == -2147483647 - 1

AddInt32(a, b) ==
  IF a > 0 /\ b > 0 /\ a > MaxInt32 - b THEN (a + MinInt32) + (b + MinInt32)
  ELSE IF a < 0 /\ b < 0 /\ a < MinInt32 - b THEN ((a + MaxInt32) + 1) + ((b + MaxInt32) + 1)
  ELSE a + b

SubInt32(a, b) ==
  IF b = MinInt32 THEN AddInt32(AddInt32(a, MaxInt32), 1) ELSE AddInt32(a, -b)

ShiftLeft5(hash) ==
  LET low == hash % 134217728
      rest == low % 67108864
  IN IF low >= 67108864 THEN rest * 32 + MinInt32 ELSE rest * 32

\* JSON.stringify of the cached data (natural numbers here)
Stringify(data) == toString(data, 10)

RECURSIVE HashFrom(_, _, _)
HashFrom(str, i, hash) ==
  IF i > Len(str) THEN hash
  ELSE HashFrom(str, i + 1, AddInt32(SubInt32(ShiftLeft5(hash), hash), CharCode(str[i])))

generateETag(data) ==
  LET hash == HashFrom(Stringify(data), 1, 0)
  IN <<QUOTE>> \o toString(IF hash < 0 THEN -hash ELSE hash, 36) \o <<QUOTE>>

\* String.prototype.includes
includes(key, pattern) ==
  \E i \in 0..(Len(key) - Len(pattern)) : SubSeq(key, i + 1, i + Len(pattern)) = pattern

\* Map.prototype.has / get / delete / set on the entries in Map order
HasKey(c, key) == \E i \in 1..Len(c) : c[i].key = key

EntryOf(c, key) == c[CHOOSE i \in 1..Len(c) : c[i].key = key]

DeleteKey(c, key) == SelectSeq(c, LAMBDA e : e.key # key)

MapSet(c, entry) ==
  IF HasKey(c, entry.key)
  THEN [i \in 1..Len(c) |-> IF c[i].key = entry.key THEN entry ELSE c[i]]
  ELSE Append(c, entry)

\* ResponseCache.set: the entries afterwards
set(c, size, key, data, time) ==
  LET oldestKey == IF c = <<>> THEN <<>> ELSE Head(c).key
      kept == IF Len(c) >= size /\ c # <<>> /\ oldestKey # <<>>
              THEN DeleteKey(c, oldestKey)
              ELSE c
  IN MapSet(kept, [key |-> key, data |-> data, timestamp |-> time,
                   etag |-> generateETag(data)])

\* ResponseCache.get: whether the entry is returned, and the entries afterwards
Expired(c, life, key, time) == time - EntryOf(c, key).timestamp > life

get(c, life, key, time) ==
  IF ~HasKey(c, key) THEN [returned |-> <<>>, cache |-> c]
  ELSE IF Expired(c, life, key, time) THEN [returned |-> <<>>, cache |-> DeleteKey(c, key)]
  ELSE [returned |-> <<EntryOf(c, key)>>, cache |-> c]

checkETag(c, key, etag) == HasKey(c, key) /\ EntryOf(c, key).etag = etag

\* invalidate that deletes only the key equal to the pattern
invalidate_ExactKey(c, pattern) == SelectSeq(c, LAMBDA e : e.key # pattern)

invalidate(c, pattern) == SelectSeq(c, LAMBDA e : ~includes(e.key, pattern))

Call(method, key, returned) == [method |-> method, key |-> key, returned |-> returned]

cacheInit ==
  /\ cache = <<>>
  /\ maxSize = DefaultMaxSize
  /\ ttl = DefaultTTL
  /\ clock = 0
  /\ lastCall = Call("none", <<>>, <<>>)

(***************************************************************************)
(* State of the HTTP service in front of the table store: the table data,  *)
(* the queue of duckdb.ts that runs one database task at a time, and       *)
(* history.  The data of the table is one number, raised by every update.  *)
(***************************************************************************)
VARIABLES
  dbData,           \* the committed contents of the table
  dbQueue,          \* queue: the database tasks enqueued and not yet completed
  lastAnswer        \* history: the response sent in the last step, if any

serverVars == <<dbData, dbQueue, lastAnswer>>

NoAnswer == [route |-> "none", status |-> 0, data |-> 0, from |-> "none", arrivedAt |-> 0]

Answer(route, status, data, from, arrivedAt) ==
  [route |-> route, status |-> status, data |-> data, from |-> from,
   arrivedAt |-> arrivedAt]

serverInit ==
  /\ dbData = 0
  /\ dbQueue = <<>>
  /\ lastAnswer = NoAnswer

(***************************************************************************)
(* State of useCSVLoader on the side of the table worker: the client, the  *)
(* loaded-row set, the rows held in React state, the two message channels  *)
(* between the hook and the worker, and history.                           *)
(***************************************************************************)
VARIABLES
  client,           \* duckdbClientRef.current: <<>> (null) or <<the client>>
  loadedRows,       \* duckdbLoadedRowsRef.current
  stateRows,        \* state.rows: its length and the cells that hold a row
  stateRowCount,    \* state.rowCount
  toWorker,         \* messages posted to the table worker and not yet delivered
  toMain,           \* messages posted by the table worker and not yet delivered
  promises,         \* history: the promises returned by the client's ensureRange
  abandoned,        \* history: promises still pending when their client was dropped
  freshFrom,        \* history: first requestId issued by the latest setFiltersAndSort
  calls,            \* history: calls of the hook's functions so far
  lastLoader        \* history: what the last step of the hook handled

VARIABLE consumer
  \* useCSVLoader on the side of the csv worker, one record:
  \*   worker      workerRef.current is non-null
  \*   streaming   streamingStateRef.current: <<>> (null) or <<the state>>
  \*   rows        state.rows of the streamed load
  \*   limit       MAX_BUFFER_SIZE in rows of the model's batch size
  \*   outbox      messages posted to the worker and not handled yet
  \*   delivered   how many of the worker's messages onmessage has handled
  \*   calls       history: calls of loadSource, cancel and reset
  \*   received    history: ids of the rows batches received from this worker
  \*   acksSent    history: ids of the acks sent to this worker
  \*   moved       history: ids of the batches whose rows were moved to state

tableLoaderVars == <<client, loadedRows, stateRows, stateRowCount, toWorker, toMain,
                     promises, abandoned, freshFrom, calls, lastLoader>>

loaderVars == <<tableLoaderVars, consumer>>

NoRows == [length |-> 0, cells |-> [x \in {} |-> 0]]

Handled(type, requestId) == [type |-> type, requestId |-> requestId]

tableLoaderInit ==
  /\ client = <<>>
  /\ loadedRows = {}
  /\ stateRows = NoRows
  /\ stateRowCount = 0
  /\ toWorker = <<>>
  /\ toMain = <<>>
  /\ promises = [x \in {} |-> 0]
  /\ abandoned = 0
  /\ freshFrom = 0
  /\ calls = 0
  /\ lastLoader = Handled("none", 0)

\* a buffered row remembers the batch that carried it
BufferedRow(id, row) == [batch |-> id, cells |-> row]

\* streamingStateRef.current as loadSource creates it
NewStreamingState ==
  [rowsBuffer |-> <<>>, flushScheduled |-> FALSE, pendingBatchId |-> <<>>,
   isPaused |-> FALSE]

ConsumerIdle ==
  [worker |-> FALSE, streaming |-> <<>>, rows |-> <<>>, limit |-> 0, outbox |-> <<>>,
   delivered |-> 0, calls |-> 0, received |-> <<>>, acksSent |-> <<>>, moved |-> {}]

loaderInit == tableLoaderInit /\ consumer = ConsumerIdle

W == [mode |-> mode, kind |-> kind, chunksLeft |-> chunksLeft, batchSize |-> batchSize,
      pc |-> pc, final |-> final, decPending |-> decPending, text |-> text, pos |-> pos,
      carry |-> carry, inQuotes |-> inQuotes, headerParsed |-> headerParsed,
      batch |-> batch, loaded |-> loaded, posted |-> posted,
      nextBatchId |-> nextBatchId, abortController |-> abortController, aborted |-> aborted,
      paused |-> paused, resolveAck |-> resolveAck, resolvePause |-> resolvePause,
      isLoading |-> isLoading, outcome |-> outcome, nReads |-> nReads]

Become(w) ==
  /\ mode' = w.mode /\ kind' = w.kind /\ chunksLeft' = w.chunksLeft
  /\ batchSize' = w.batchSize /\ pc' = w.pc /\ final' = w.final
  /\ decPending' = w.decPending /\ text' = w.text /\ pos' = w.pos
  /\ carry' = w.carry /\ inQuotes' = w.inQuotes /\ headerParsed' = w.headerParsed
  /\ batch' = w.batch /\ loaded' = w.loaded /\ posted' = w.posted
  /\ nextBatchId' = w.nextBatchId /\ abortController' = w.abortController
  /\ aborted' = w.aborted /\ paused' = w.paused /\ resolveAck' = w.resolveAck
  /\ resolvePause' = w.resolvePause /\ isLoading' = w.isLoading
  /\ outcome' = w.outcome /\ nReads' = w.nReads
  /\ input' = input

\* a message posted to the consumer (or a callback invocation)
Msg(type, id, rows, n) == [type |-> type, id |-> id, rows |-> rows, loaded |-> n]

Post(w, m) == [w EXCEPT !.posted = Append(@, m)]

\* options.signal?.aborted
SignalAborted(w) == w.abortController = "aborted"

emitProgress(w) == Post(w, Msg("progress", 0, <<>>, w.loaded))

(***************************************************************************)
(* parseStream settles with result r.  In the worker the load handler then *)
(* posts its terminal message, closes the worker and runs its finally      *)
(* block.                                                                  *)
(***************************************************************************)
TerminalFor(w, r) ==
  IF r = "resolved" THEN "done"
  ELSE IF w.aborted \/ r = "AbortError" THEN "aborted"
  ELSE "error"

Settle(w, r) ==
  IF w.mode = "direct"
  THEN [w EXCEPT !.pc = "settled", !.outcome = r]
  ELSE [Post(w, Msg(TerminalFor(w, r), 0, <<>>, 0)) EXCEPT
          !.pc = "closed", !.outcome = r, !.resolveAck = FALSE,
          !.resolvePause = FALSE, !.abortController = "null",
          !.isLoading = FALSE, !.paused = FALSE]

(***************************************************************************)
(* onRows: the worker posts the batch under the next id and waits for its  *)
(* ack; a plain consumer returns a promise that it resolves later.         *)
(***************************************************************************)
PcAfterPost(w) == IF w.mode = "worker" THEN "ack" ELSE "onRows"

onRows(w, rows, isFinal) ==
  IF w.mode = "worker"
  THEN [Post(w, Msg("rows", w.nextBatchId + 1, rows, 0)) EXCEPT
          !.nextBatchId = @ + 1, !.resolveAck = TRUE,
          !.pc = PcAfterPost(w), !.final = isFinal]
  ELSE [Post(w, Msg("rows", 0, rows, 0)) EXCEPT
          !.pc = PcAfterPost(w), !.final = isFinal]

(***************************************************************************)
(* flushBatch, up to the point where it suspends in onRows.                *)
(***************************************************************************)
\* flushBatch that hands over a copy of the batch and leaves the rows in it
flushBatch_KeepsRows(w, isFinal) ==
  IF Len(w.batch) > 0
  THEN IF SignalAborted(w)
       THEN Settle(w, "AbortError")
       ELSE onRows(w, w.batch, isFinal)
  ELSE Settle(emitProgress(w), "resolved")

flushBatch(w, isFinal) ==
  IF Len(w.batch) > 0
  THEN IF SignalAborted(w)
       THEN Settle(w, "AbortError")
       ELSE onRows([w EXCEPT !.batch = <<>>], w.batch, isFinal)
  ELSE \* only the final flush is called with an empty batch
       Settle(emitProgress(w), "resolved")

(***************************************************************************)
(* Head of the read loop: throwIfAborted, then reader.read() is issued.    *)
(***************************************************************************)
LoopHead(w) ==
  IF SignalAborted(w)
  THEN Settle(w, "AbortError")
  ELSE [w EXCEPT !.pc = "read", !.nReads = @ + 1]

\* the record that ends at the line feed just appended to carry
RecordOf(c) ==
  IF Len(c) >= 2 /\ c[Len(c) - 1] = CR
  THEN SubSeq(c, 1, Len(c) - 2)
  ELSE SubSeq(c, 1, Len(c) - 1)

(***************************************************************************)
(* The scan loop over the decoded text, from index w.pos, up to the next   *)
(* suspension: a flush that awaits onRows, or the next reader.read().      *)
(* While a flush is pending, pos stays on the line feed and carry still    *)
(* holds the record; ScanResume clears it as the code after the await does.*)
(***************************************************************************)
RECURSIVE Scan(_)
Scan(w) ==
  IF w.pos > Len(w.text) THEN LoopHead(w)
  ELSE
    LET ch == w.text[w.pos]
        c1 == Append(w.carry, ch)
    IN
    IF ch = QUOTE
    THEN IF w.inQuotes /\ w.pos + 1 <= Len(w.text) /\ w.text[w.pos + 1] = QUOTE
         THEN Scan([w EXCEPT !.carry = Append(c1, QUOTE), !.pos = @ + 2])
         ELSE Scan([w EXCEPT !.carry = c1, !.inQuotes = ~@, !.pos = @ + 1])
    ELSE IF ~w.inQuotes /\ ch = LF
    THEN LET record == RecordOf(c1) IN
         IF Len(record) > 0 \/ w.headerParsed
         THEN IF ~w.headerParsed
              THEN Scan([Post(w, Msg("columns", 0, <<parseLine(record)>>, 0)) EXCEPT
                           !.headerParsed = TRUE, !.carry = <<>>, !.pos = @ + 1])
              ELSE LET b == Append(w.batch, parseLine(record)) IN
                   IF Len(b) >= w.batchSize
                   THEN flushBatch([w EXCEPT !.carry = c1, !.batch = b], FALSE)
                   ELSE Scan([w EXCEPT !.batch = b, !.carry = <<>>, !.pos = @ + 1])
         ELSE Scan([w EXCEPT !.carry = <<>>, !.pos = @ + 1])
    ELSE Scan([w EXCEPT !.carry = c1, !.pos = @ + 1])

\* OnRead with the quote state declared inside the read loop: every
\* ByteChunk starts outside quotes
OnRead_ResetsQuotes(w, value) ==
  LET d == Decode(value, w.decPending, <<>>)
      w1 == [w EXCEPT !.loaded = @ + Len(value), !.inQuotes = FALSE]
  IN Scan([emitProgress(w1) EXCEPT !.decPending = d.pending, !.text = d.text, !.pos = 1])

\* OnRead that reports the size of the ByteChunk just read instead of the sum
OnRead_CountsLastChunk(w, value) ==
  LET d == Decode(value, w.decPending, <<>>)
      w1 == [w EXCEPT !.loaded = Len(value)]
  IN Scan([emitProgress(w1) EXCEPT !.decPending = d.pending, !.text = d.text, !.pos = 1])

\* reader.read() delivered the ByteChunk value
OnRead(w, value) ==
  LET d == Decode(value, w.decPending, <<>>)
      w1 == [w EXCEPT !.loaded = @ + Len(value)]
  IN Scan([emitProgress(w1) EXCEPT !.decPending = d.pending, !.text = d.text, !.pos = 1])

\* OnReadDone that flushes without parsing the text left in carry
OnReadDone_DropsCarry(w) == flushBatch(w, TRUE)

\* reader.read() reported done: the code after the read loop
OnReadDone(w) ==
  LET w1 == IF w.carry # <<>> /\ ~w.inQuotes
            THEN IF ~w.headerParsed
                 THEN Post(w, Msg("columns", 0, <<parseLine(w.carry)>>, 0))
                 ELSE [w EXCEPT !.batch = Append(@, parseLine(w.carry))]
            ELSE w
  IN flushBatch(w1, TRUE)

\* the promise returned by onRows resolved: flushBatch returns to its caller
AfterOnRows(w) ==
  IF w.final
  THEN Settle(emitProgress(w), "resolved")
  ELSE Scan([w EXCEPT !.carry = <<>>, !.pos = @ + 1])


(***************************************************************************)
(* tableWorker: constants, maps and the row-range service.                 *)
(***************************************************************************)
\* MAX_CACHED_CHUNKS (DUCKDB_WORKER_CACHE_SIZE of the model's configuration)
MAX_CACHED_CHUNKS == 2
\* weight of accessCount in the eviction score
ScoreWeight == 1000
\* state.chunkSize before any init message
DefaultChunkSize == 2000
\* chunkSize values carried by init messages
ChunkSizes == {2}
\* rows of the table "dataset" held by the row-range service
TableRows == 4
\* messages received by tableWorker per run
MaxMessages == 4

Tables == {"dataset"}
\* filter / sort criteria as one value: "plain" is the initial {} / null
Criteria == {"plain", "sorted"}
\* readings of Date.now()
Clock == {0, 1000}

\* rowCount the service reports for a table: "other" is an empty table
ServiceTotal(tb) == IF tb = "dataset" THEN TableRows ELSE 0

Min(a, b) == IF a < b THEN a ELSE b
Max(a, b) == IF a > b THEN a ELSE b

Has(f, k) == k \in DOMAIN f
Drop(f, k) == [x \in DOMAIN f \ {k} |-> f[x]]
Put(f, k, v) == [x \in DOMAIN f \cup {k} |-> IF x = k THEN v ELSE f[x]]
EmptyMap == [x \in {} |-> 0]

\* indexOf + splice: remove the first occurrence of k
RECURSIVE RemoveFirst(_, _)
RemoveFirst(seq, k) ==
  IF seq = <<>> THEN <<>>
  ELSE IF Head(seq) = k THEN Tail(seq)
  ELSE <<Head(seq)>> \o RemoveFirst(Tail(seq), k)

T == [table |-> table, chunkSize |-> chunkSize, rowCount |-> rowCount,
      criteria |-> criteria, chunks |-> chunks, chunkAccessOrder |-> chunkAccessOrder,
      chunkMetadata |-> chunkMetadata, chunkETags |-> chunkETags,
      inflight |-> inflight, controller |-> controller, fetches |-> fetches,
      requests |-> requests, nextFetchId |-> nextFetchId,
      nextRequestId |-> nextRequestId, tablePosted |-> tablePosted, now |-> now,
      serverVersion |-> serverVersion, issued |-> issued, served |-> served,
      controlCount |-> controlCount]

\* the state at the start of a step: what the step posts, issues and serves
\* is collected from empty
Turn == [T EXCEPT !.tablePosted = <<>>, !.issued = <<>>, !.served = <<>>]

\* the state object of tableWorker as constructed
TableIdle ==
  [table |-> "dataset", chunkSize |-> DefaultChunkSize, rowCount |-> 0,
   criteria |-> "plain", chunks |-> EmptyMap, chunkAccessOrder |-> <<>>,
   chunkMetadata |-> EmptyMap, chunkETags |-> EmptyMap, inflight |-> EmptyMap,
   controller |-> "null", fetches |-> EmptyMap, requests |-> EmptyMap,
   nextFetchId |-> 0, nextRequestId |-> 0, tablePosted |-> <<>>, now |-> 0,
   serverVersion |-> 0, issued |-> <<>>, served |-> <<>>, controlCount |-> 0]

tableInitOf(t) ==
  /\ table = t.table /\ chunkSize = t.chunkSize /\ rowCount = t.rowCount
  /\ criteria = t.criteria /\ chunks = t.chunks
  /\ chunkAccessOrder = t.chunkAccessOrder /\ chunkMetadata = t.chunkMetadata
  /\ chunkETags = t.chunkETags /\ inflight = t.inflight
  /\ controller = t.controller /\ fetches = t.fetches /\ requests = t.requests
  /\ nextFetchId = t.nextFetchId /\ nextRequestId = t.nextRequestId
  /\ tablePosted = t.tablePosted /\ now = t.now
  /\ serverVersion = t.serverVersion /\ issued = t.issued /\ served = t.served
  /\ controlCount = 0
  /\ lastEvent = [type |-> "none", id |-> 0, rows |-> {}]

TBecome(t) ==
  /\ table' = t.table /\ chunkSize' = t.chunkSize /\ rowCount' = t.rowCount
  /\ criteria' = t.criteria /\ chunks' = t.chunks
  /\ chunkAccessOrder' = t.chunkAccessOrder /\ chunkMetadata' = t.chunkMetadata
  /\ chunkETags' = t.chunkETags /\ inflight' = t.inflight
  /\ controller' = t.controller /\ fetches' = t.fetches /\ requests' = t.requests
  /\ nextFetchId' = t.nextFetchId /\ nextRequestId' = t.nextRequestId
  /\ tablePosted' = t.tablePosted /\ now' = t.now
  /\ serverVersion' = t.serverVersion /\ issued' = t.issued /\ served' = t.served

\* post(message): type, requestId (0 when absent), rows, rowCount, message
TMsg(type, requestId, rows, n, message) ==
  [type |-> type, requestId |-> requestId, rows |-> rows, rowCount |-> n,
   message |-> message]

post(t, m) == [t EXCEPT !.tablePosted = Append(@, m)]

(***************************************************************************)
(* trackChunkAccess and evictOldChunks.                                    *)
(***************************************************************************)
trackChunkAccess(t, chunkIndex) ==
  LET metadata == IF Has(t.chunkMetadata, chunkIndex)
                  THEN t.chunkMetadata[chunkIndex]
                  ELSE [accessCount |-> 0, lastAccess |-> 0]
  IN [t EXCEPT
        !.chunkAccessOrder = Append(RemoveFirst(@, chunkIndex), chunkIndex),
        !.chunkMetadata = Put(@, chunkIndex,
                              [accessCount |-> metadata.accessCount + 1,
                               lastAccess |-> t.now])]

\* score of a chunk that has metadata
Score(t, chunkIndex) ==
  LET metadata == t.chunkMetadata[chunkIndex]
  IN metadata.accessCount * ScoreWeight - (t.now - metadata.lastAccess)

\* the for loop of evictOldChunks over chunkAccessOrder[i..]: found is FALSE
\* while lowestScore is still Infinity
RECURSIVE LowestFrom(_, _, _, _, _)
LowestFrom(t, i, found, oldestChunk, lowestScore) ==
  IF i > Len(t.chunkAccessOrder)
  THEN [found |-> found, chunk |-> oldestChunk]
  ELSE LET chunkIndex == t.chunkAccessOrder[i] IN
       IF ~Has(t.chunkMetadata, chunkIndex)
       THEN LowestFrom(t, i + 1, found, oldestChunk, lowestScore)
       ELSE IF ~found \/ Score(t, chunkIndex) < lowestScore
            THEN LowestFrom(t, i + 1, TRUE, chunkIndex, Score(t, chunkIndex))
            ELSE LowestFrom(t, i + 1, found, oldestChunk, lowestScore)

RemoveChunk(t, chunkIndex) ==
  [t EXCEPT !.chunks = Drop(@, chunkIndex),
            !.chunkMetadata = Drop(@, chunkIndex),
            !.chunkETags = Drop(@, chunkIndex)]

\* evictOldChunks with "size > MAX_CACHED_CHUNKS" as the loop condition
RECURSIVE evictOldChunks_AboveCapacity(_)
evictOldChunks_AboveCapacity(t) ==
  IF Cardinality(DOMAIN t.chunks) > MAX_CACHED_CHUNKS /\ Len(t.chunkAccessOrder) > 0
  THEN LET low == LowestFrom(t, 1, FALSE, 0, 0) IN
       IF low.found
       THEN evictOldChunks_AboveCapacity([RemoveChunk(t, low.chunk) EXCEPT
                              !.chunkAccessOrder = RemoveFirst(@, low.chunk)])
       ELSE evictOldChunks_AboveCapacity([RemoveChunk(t, Head(t.chunkAccessOrder)) EXCEPT
                              !.chunkAccessOrder = Tail(@)])
  ELSE t

\* evictOldChunks that ignores the scores and removes the chunk at the head
\* of chunkAccessOrder
RECURSIVE evictOldChunks_OldestAccess(_)
evictOldChunks_OldestAccess(t) ==
  IF Cardinality(DOMAIN t.chunks) >= MAX_CACHED_CHUNKS /\ Len(t.chunkAccessOrder) > 0
  THEN evictOldChunks_OldestAccess([RemoveChunk(t, Head(t.chunkAccessOrder)) EXCEPT
                                      !.chunkAccessOrder = Tail(@)])
  ELSE t

RECURSIVE evictOldChunks(_)
evictOldChunks(t) ==
  IF Cardinality(DOMAIN t.chunks) >= MAX_CACHED_CHUNKS /\ Len(t.chunkAccessOrder) > 0
  THEN LET low == LowestFrom(t, 1, FALSE, 0, 0) IN
       IF low.found
       THEN evictOldChunks([RemoveChunk(t, low.chunk) EXCEPT
                              !.chunkAccessOrder = RemoveFirst(@, low.chunk)])
       ELSE evictOldChunks([RemoveChunk(t, Head(t.chunkAccessOrder)) EXCEPT
                              !.chunkAccessOrder = Tail(@)])
  ELSE t

(***************************************************************************)
(* The row-range service: the page it returns for a request, read from the *)
(* data it holds when it answers.  A cached chunk is that page; values     *)
(* stand for the row at offset + position, tagged with the table, criteria *)
(* and data version it was read under.  stale records whether the fetch    *)
(* that brought the chunk had been issued before an invalidate of its      *)
(* chunk index was processed.                                              *)
(***************************************************************************)
ServicePage(f, version) ==
  LET offset == f.index * f.limit
      total == ServiceTotal(f.table)
  IN [n |-> Max(0, Min(f.limit, total - offset)), offset |-> offset,
      table |-> f.table, criteria |-> f.criteria, version |-> version,
      rowCount |-> total, stale |-> FALSE]

\* chunk[within]
ValuesAt(chunk, within) ==
  [row |-> chunk.offset + within, table |-> chunk.table,
   criteria |-> chunk.criteria, version |-> chunk.version,
   stale |-> chunk.stale]

(***************************************************************************)
(* fetchChunk up to "await fetch(...)", and ensureChunk.  ensureChunk      *)
(* yields the new state and the id of the fetch promise the caller awaits  *)
(* (0 for an already resolved promise).                                    *)
(***************************************************************************)
fetchChunkStart(t, index, requestId) ==
  LET id == t.nextFetchId + 1
      f == [index |-> index, stage |-> "pending", table |-> t.table,
            criteria |-> t.criteria, limit |-> t.chunkSize,
            ifNoneMatch |-> IF Has(t.chunks, index) /\ Has(t.chunkETags, index)
                            THEN <<t.chunkETags[index]>> ELSE <<>>,
            page |-> <<>>, waiters |-> <<requestId>>, stale |-> FALSE]
  IN [t EXCEPT !.controller = "live", !.nextFetchId = id,
               !.fetches = Put(@, id, f),
               !.issued = Append(@, [index |-> index, id |-> id,
                                     ifNoneMatch |-> f.ifNoneMatch])]

ensureChunk(t, index, requestId) ==
  IF Has(t.chunks, index) THEN [t |-> t, wait |-> 0]
  ELSE IF Has(t.inflight, index)
  THEN LET id == t.inflight[index] IN
       [t |-> [t EXCEPT !.fetches[id].waiters = Append(@, requestId)], wait |-> id]
  ELSE LET t1 == fetchChunkStart(t, index, requestId) IN
       [t |-> [t1 EXCEPT !.inflight = Put(@, index, t1.nextFetchId)],
        wait |-> t1.nextFetchId]

(***************************************************************************)
(* gatherRows.                                                             *)
(***************************************************************************)
RECURSIVE GatherFrom(_, _, _, _)
GatherFrom(t, rowIndex, maxIndex, rows) ==
  IF rowIndex > maxIndex THEN [t |-> t, rows |-> rows]
  ELSE LET chunkIndex == rowIndex \div t.chunkSize
           within == rowIndex - chunkIndex * t.chunkSize
       IN IF ~Has(t.chunks, chunkIndex)
          THEN GatherFrom(t, rowIndex + 1, maxIndex, rows)
          ELSE LET t1 == trackChunkAccess(t, chunkIndex) IN
               IF within >= t.chunks[chunkIndex].n
               THEN GatherFrom(t1, rowIndex + 1, maxIndex, rows)
               ELSE GatherFrom(t1, rowIndex + 1, maxIndex,
                               Append(rows, [index |-> rowIndex,
                                             values |-> ValuesAt(t.chunks[chunkIndex], within)]))

gatherRows(t, start, end) ==
  LET total == t.rowCount
      g == GatherFrom(t, start, Max(end, total - 1), <<>>)
      lastLoadedIndex == IF Len(g.rows) > 0 THEN g.rows[Len(g.rows)].index + 1 ELSE 0
      inferredRowCount == Max(Max(total, lastLoadedIndex), end + 1)
  IN [t |-> g.t, rows |-> g.rows,
      rowCount |-> IF total > 0 THEN total ELSE inferredRowCount]

(***************************************************************************)
(* handleLoadRange.  A request is suspended in "await ensureChunk(chunk)"; *)
(* queue lists, in the order their continuations were scheduled, the       *)
(* requests whose await has resolved and that go on to request.chunk.      *)
(***************************************************************************)
RECURSIVE RunQueue(_, _)
RunQueue(t, queue) ==
  IF queue = <<>> THEN t
  ELSE
    LET requestId == Head(queue)
        r == t.requests[requestId]
    IN
    IF r.chunk > r.lastChunk
    THEN LET payload == gatherRows(t, r.start, r.end) IN
         RunQueue([post(payload.t, TMsg("rows", requestId, payload.rows,
                                        payload.rowCount, ""))
                     EXCEPT !.requests = Drop(@, requestId),
                            !.served = Append(@, [requestId |-> requestId,
                                                  start |-> r.start,
                                                  end |-> r.end])],
                  Tail(queue))
    ELSE LET e == ensureChunk(t, r.chunk, requestId) IN
         IF e.wait = 0
         THEN RunQueue([e.t EXCEPT !.requests[requestId].chunk = @ + 1],
                       Append(Tail(queue), requestId))
         ELSE RunQueue(e.t, Tail(queue))

handleLoadRange(t, messageStart, messageEnd) ==
  LET requestId == t.nextRequestId + 1
      start == Max(0, Min(messageStart, messageEnd))
      end == Max(start, messageEnd)
      r == [start |-> start, end |-> end,
            chunk |-> start \div t.chunkSize,
            lastChunk |-> end \div t.chunkSize,
            epoch |-> t.controlCount]
  IN RunQueue([t EXCEPT !.nextRequestId = requestId,
                        !.requests = Put(@, requestId, r)],
              <<requestId>>)

(***************************************************************************)
(* Settling of a fetchChunk promise and the catch / finally chain of       *)
(* ensureChunk, followed by the continuations of the awaiting requests.    *)
(***************************************************************************)
RECURSIVE RejectWaiters(_, _, _)
RejectWaiters(t, waiters, message) ==
  IF waiters = <<>> THEN t
  ELSE RejectWaiters([post(t, TMsg("error", Head(waiters), <<>>, 0, message))
                        EXCEPT !.requests = Drop(@, Head(waiters))],
                     Tail(waiters), message)

\* fetchChunk rejected: .catch posts an error, .finally clears inflight,
\* every awaiting handleLoadRange posts its own error
fetchRejected(t, id, message) ==
  LET f == t.fetches[id]
      t1 == post(t, TMsg("error", 0, <<>>, 0, message))
      t2 == [t1 EXCEPT !.inflight = Drop(@, f.index), !.fetches = Drop(@, id)]
  IN RejectWaiters(t2, f.waiters, message)

RECURSIVE Advance(_, _)
Advance(t, waiters) ==
  IF waiters = <<>> THEN t
  ELSE Advance([t EXCEPT !.requests[Head(waiters)].chunk = @ + 1], Tail(waiters))

\* the service answers 304 when the request carries an If-None-Match that
\* is the etag of the page it would return
NotModified(f, version) ==
  f.ifNoneMatch # <<>> /\ f.ifNoneMatch[1] = ServicePage(f, version)

\* fetch() resolved with status 304: the access is recorded and fetchChunk
\* returns; .finally clears inflight and the awaiting requests continue
fetchUnchanged(t, id) ==
  LET f == t.fetches[id]
      t1 == trackChunkAccess(t, f.index)
      t2 == [t1 EXCEPT !.inflight = Drop(@, f.index), !.fetches = Drop(@, id)]
  IN RunQueue(Advance(t2, f.waiters), f.waiters)

\* fetch() resolved: with a 304 response fetchChunk returns at once; with a
\* 200 response the etag is stored, then "await response.json()" suspends
fetchResponded(t, id) ==
  LET f == t.fetches[id]
      page == ServicePage(f, t.serverVersion)
  IN IF NotModified(f, t.serverVersion)
     THEN fetchUnchanged(t, id)
     ELSE [t EXCEPT !.chunkETags = Put(@, f.index, page),
                    !.fetches[id].stage = "body",
                    !.fetches[id].page = <<page>>]

\* response.json() resolved: rowCount, eviction, insert, access tracking;
\* then .finally clears inflight and the awaiting requests continue
fetchCompleted(t, id) ==
  LET f == t.fetches[id]
      page == f.page[1]
      t1 == [t EXCEPT !.rowCount = page.rowCount]
      t2 == evictOldChunks(t1)
      t3 == trackChunkAccess([t2 EXCEPT !.chunks =
                                Put(@, f.index, [page EXCEPT !.stale = f.stale])],
                             f.index)
      t4 == [t3 EXCEPT !.inflight = Drop(@, f.index), !.fetches = Drop(@, id)]
  IN RunQueue(Advance(t4, f.waiters), f.waiters)

(***************************************************************************)
(* abortCurrent, handleInit, reset, handleInvalidate.                      *)
(***************************************************************************)
\* ids of the pending fetches, in the order they were issued
RECURSIVE PendingFrom(_, _)
PendingFrom(t, id) ==
  IF id > t.nextFetchId THEN <<>>
  ELSE (IF Has(t.fetches, id) THEN <<id>> ELSE <<>>) \o PendingFrom(t, id + 1)

RECURSIVE RejectAll(_, _)
RejectAll(t, ids) ==
  IF ids = <<>> THEN t
  ELSE RejectAll(fetchRejected(t, Head(ids), "AbortError"), Tail(ids))

\* the signal of the old controller aborts every pending fetch, which all
\* reject once the handler has returned
abortCurrent(t) == [t EXCEPT !.controller = "live"]

clearCache(t) ==
  [t EXCEPT !.chunks = EmptyMap, !.chunkAccessOrder = <<>>,
            !.chunkMetadata = EmptyMap, !.chunkETags = EmptyMap,
            !.inflight = EmptyMap]

\* handleInit whose abort does not reach the fetches already issued
handleInit_KeepsFetches(t, m) ==
  LET changed == t.criteria # m.criteria
      t1 == [t EXCEPT !.table = m.table, !.chunkSize = m.chunkSize,
                      !.criteria = m.criteria]
      t2 == IF changed THEN abortCurrent(clearCache(t1)) ELSE t1
      t3 == [t2 EXCEPT !.rowCount = IF m.rowCount = <<>> THEN @ ELSE m.rowCount[1]]
  IN post(t3, TMsg("ready", 0, <<>>, t3.rowCount, ""))

handleInit(t, m) ==
  LET changed == t.criteria # m.criteria
      t1 == [t EXCEPT !.table = m.table, !.chunkSize = m.chunkSize,
                      !.criteria = m.criteria]
      t2 == IF changed THEN abortCurrent(clearCache(t1)) ELSE t1
      t3 == [t2 EXCEPT !.rowCount = IF m.rowCount = <<>> THEN @ ELSE m.rowCount[1]]
      t4 == post(t3, TMsg("ready", 0, <<>>, t3.rowCount, ""))
  IN IF changed THEN RejectAll(t4, PendingFrom(t4, 1)) ELSE t4

handleReset(t) ==
  LET t1 == abortCurrent(clearCache(t))
  IN RejectAll(t1, PendingFrom(t1, 1))

\* the fetches still pending for chunkIndex were issued before this
\* invalidate; nothing else about them changes
MarkStale(pending, chunkIndex) ==
  [id \in DOMAIN pending |->
     IF pending[id].index = chunkIndex
     THEN [pending[id] EXCEPT !.stale = TRUE] ELSE pending[id]]

RECURSIVE InvalidateRows(_, _)
InvalidateRows(t, rows) ==
  IF rows = <<>> THEN t
  ELSE LET rowIndex == Head(rows)
           chunkIndex == rowIndex \div t.chunkSize
       IN IF rowIndex < 0 THEN InvalidateRows(t, Tail(rows))
          ELSE InvalidateRows([t EXCEPT !.chunks = Drop(@, chunkIndex),
                                        !.inflight = Drop(@, chunkIndex),
                                        !.chunkAccessOrder = RemoveFirst(@, chunkIndex),
                                        !.fetches = MarkStale(@, chunkIndex)],
                              Tail(rows))

\* handleInvalidate that takes the listed numbers for chunk indices
handleInvalidate_ByRowIndex(t, rows) ==
  InvalidateRows(t, [i \in 1..Len(rows) |-> rows[i] * t.chunkSize])

handleInvalidate(t, rows) == InvalidateRows(t, rows)

(***************************************************************************)
(* One step of the model: the state becomes w after processing m, an       *)
(* inbound message or an event of the environment.  The two history        *)
(* variables are maintained here.                                          *)
(***************************************************************************)
In(type, id) == [type |-> type, id |-> id]

OfType(msgs, t) == SelectSeq(msgs, LAMBDA m : m.type = t)

NRows(msgs) == Len(OfType(msgs, "rows"))

StepCsv(w, m) ==
  /\ Become(w)
  /\ lastMsg' = m
  /\ unreleased' = IF NRows(w.posted) > NRows(posted) THEN TRUE
                   ELSE IF m.type \in {"ack", "abort", "resolve"} THEN FALSE
                   ELSE unreleased
  /\ acked' = IF m.type = "ack" /\ isLoading THEN acked \cup {m.id}
              ELSE IF m.type = "load" THEN {}
              ELSE acked

Step(w, m) ==
  /\ StepCsv(w, m)
  /\ UNCHANGED <<tableVars, cacheVars, serverVars, loaderVars>>

(***************************************************************************)
(* The byte source: reader.read() resolves with the next ByteChunk, with   *)
(* done, or rejects (transport failure).                                   *)
(***************************************************************************)
SourceRead ==
  /\ pc = "read"
  /\ chunksLeft # <<>>
  /\ Step(OnRead([W EXCEPT !.chunksLeft = Tail(@)], Head(chunksLeft)), In("chunk", 0))

SourceDone ==
  /\ pc = "read"
  /\ chunksLeft = <<>>
  /\ Step(OnReadDone(W), In("eof", 0))

SourceError ==
  /\ pc = "read"
  /\ Step(Settle(W, "Error"), In("readError", 0))

(***************************************************************************)
(* parseStream with a plain asynchronous consumer: the promise returned by *)
(* onRows resolves at some later time, and the holder of the AbortSignal   *)
(* may abort it at any time.                                               *)
(***************************************************************************)
OnRowsResolve ==
  /\ mode = "direct"
  /\ pc = "onRows"
  /\ Step(AfterOnRows(W), In("resolve", 0))

SignalAbort ==
  /\ mode = "direct"
  /\ pc \in {"read", "onRows"}
  /\ abortController = "live"
  /\ Step([W EXCEPT !.abortController = "aborted"], In("signal", 0))

\* the state in which parseStream first suspends: its first reader.read()
StartParse(w) ==
  [w EXCEPT !.pc = "read", !.final = FALSE, !.decPending = FALSE, !.text = <<>>,
            !.pos = 1, !.carry = <<>>, !.inQuotes = FALSE, !.headerParsed = FALSE,
            !.batch = <<>>, !.loaded = 0, !.outcome = "pending", !.nReads = 1]

\* the module-level state of csvWorker before any message
WorkerIdle(byteChunks) ==
  [mode |-> "worker", kind |-> "none", chunksLeft |-> byteChunks, batchSize |-> 0,
   pc |-> "idle", final |-> FALSE, decPending |-> FALSE, text |-> <<>>, pos |-> 1,
   carry |-> <<>>, inQuotes |-> FALSE, headerParsed |-> FALSE, batch |-> <<>>,
   loaded |-> 0, posted |-> <<>>, nextBatchId |-> 0, abortController |-> "null",
   aborted |-> FALSE, paused |-> FALSE, resolveAck |-> FALSE,
   resolvePause |-> FALSE, isLoading |-> FALSE, outcome |-> "pending", nReads |-> 0]

\* parseStream called directly on a reader, with a live AbortSignal
DirectCall(byteChunks, bs) ==
  StartParse([WorkerIdle(byteChunks) EXCEPT !.mode = "direct", !.kind = "file",
                                        !.batchSize = bs, !.abortController = "live"])

csvInitOf(w) ==
  /\ mode = w.mode /\ kind = w.kind /\ chunksLeft = w.chunksLeft
  /\ batchSize = w.batchSize /\ pc = w.pc /\ final = w.final
  /\ decPending = w.decPending /\ text = w.text /\ pos = w.pos
  /\ carry = w.carry /\ inQuotes = w.inQuotes /\ headerParsed = w.headerParsed
  /\ batch = w.batch /\ loaded = w.loaded /\ posted = w.posted
  /\ nextBatchId = w.nextBatchId /\ abortController = w.abortController
  /\ aborted = w.aborted /\ paused = w.paused /\ resolveAck = w.resolveAck
  /\ resolvePause = w.resolvePause /\ isLoading = w.isLoading
  /\ outcome = w.outcome /\ nReads = w.nReads
  /\ lastMsg = In("none", 0)
  /\ unreleased = FALSE
  /\ acked = {}
  /\ tableInitOf(TableIdle)
  /\ cacheInit
  /\ serverInit
  /\ loaderInit

InitParse ==
  /\ input \in SeqsUpTo(Bytes, MaxLen)
  /\ \E byteChunks \in Cuts(input), bs \in BatchSizes : csvInitOf(DirectCall(byteChunks, bs))

NextParse ==
  \/ SourceRead
  \/ SourceDone
  \/ SourceError
  \/ OnRowsResolve

\* parseStream under a caller that may abort its signal
NextParseAbort ==
  \/ NextParse
  \/ SignalAbort

(***************************************************************************)
(* csvWorker's message listener.  Each handler is given as the state it    *)
(* leaves when the worker next returns to its event loop: promise          *)
(* continuations released by a handler run before the next message.        *)
(***************************************************************************)

\* the continuation of "await waitForAck()" without the test of paused
AfterAck_IgnoresPause(w) == AfterOnRows(w)

\* continuation of "await waitForAck()" in onRows
AfterAck(w) ==
  IF w.paused
  THEN [w EXCEPT !.resolvePause = TRUE, !.pc = "resume"]
  ELSE AfterOnRows(w)

\* { type: "ack", id }
OnAck(w, id) ==
  IF w.resolveAck
  THEN AfterAck([w EXCEPT !.resolveAck = FALSE])
  ELSE w

\* { type: "pause" }
OnPause(w) == [w EXCEPT !.paused = TRUE]

\* OnResume that also releases a producer still waiting for its ack
OnResume_ReleasesAck(w) ==
  LET w1 == [w EXCEPT !.paused = FALSE, !.resolvePause = FALSE, !.resolveAck = FALSE] IN
  IF w.resolvePause \/ w.resolveAck THEN AfterOnRows(w1) ELSE w1

\* { type: "resume" }
OnResume(w) ==
  LET w1 == [w EXCEPT !.paused = FALSE, !.resolvePause = FALSE] IN
  IF w.resolvePause THEN AfterOnRows(w1) ELSE w1

\* currentReader.cancel() and abortController.abort() reach a pending
\* reader.read(): a cancelled file stream reports done, an aborted fetch body
\* rejects the read with AbortError
CancelledRead(w) ==
  IF w.kind = "url" THEN Settle(w, "AbortError") ELSE OnReadDone(w)

\* an abort handler that posts 'aborted' itself before it releases the load
OnAbort_PostsAborted(w) ==
  LET w1 == [Post(w, Msg("aborted", 0, <<>>, 0)) EXCEPT
               !.aborted = TRUE,
               !.abortController = IF @ = "null" THEN "null" ELSE "aborted",
               !.resolveAck = FALSE, !.resolvePause = FALSE]
  IN IF w.resolveAck THEN AfterAck(w1)
     ELSE IF w.resolvePause THEN AfterOnRows(w1)
     ELSE IF w.pc = "read" THEN CancelledRead(w1)
     ELSE IF w.pc = "fetch" THEN Settle(w1, "AbortError")
     ELSE w1

\* { type: "abort" }
OnAbort(w) ==
  LET w1 == [w EXCEPT !.aborted = TRUE,
                      !.abortController = IF @ = "null" THEN "null" ELSE "aborted",
                      !.resolveAck = FALSE, !.resolvePause = FALSE]
  IN IF w.resolveAck THEN AfterAck(w1)
     ELSE IF w.resolvePause THEN AfterOnRows(w1)
     ELSE IF w.pc = "read" THEN CancelledRead(w1)
     ELSE IF w.pc = "fetch" THEN Settle(w1, "AbortError")
     ELSE w1

\* { type: "load", url | file, batchSize } while no load is running
OnLoad(w, k, bs) ==
  LET w1 == [w EXCEPT !.kind = k, !.batchSize = bs, !.abortController = "live",
                      !.isLoading = TRUE, !.aborted = FALSE, !.nextBatchId = 0]
  IN IF k = "url" THEN [w1 EXCEPT !.pc = "fetch"] ELSE StartParse(w1)

HandleAck ==
  /\ mode = "worker" /\ pc # "closed"
  /\ \E id \in 0..MaxAckId : Step(OnAck(W, id), In("ack", id))

HandlePause ==
  /\ mode = "worker" /\ pc # "closed"
  /\ Step(OnPause(W), In("pause", 0))

HandleResume ==
  /\ mode = "worker" /\ pc # "closed"
  /\ Step(OnResume(W), In("resume", 0))

HandleAbort ==
  /\ mode = "worker" /\ pc # "closed"
  /\ Step(OnAbort(W), In("abort", 0))

HandleLoad ==
  /\ mode = "worker" /\ pc = "idle" /\ ~isLoading
  /\ \E k \in {"file", "url"}, bs \in BatchSizes : Step(OnLoad(W, k, bs), In("load", 0))

\* fetch(url) resolved with a usable response: parseStream starts on its body
FetchOk ==
  /\ pc = "fetch"
  /\ Step(StartParse(W), In("response", 0))

\* fetch(url) rejected, or the response is not ok or has no body
FetchFail ==
  /\ pc = "fetch"
  /\ Step(Settle(W, "Error"), In("fetchError", 0))

\* the byte source of a load delivers chunks of one length, the last one
\* possibly shorter
InitCsv ==
  /\ input \in SeqsUpTo(WorkerBytes, MaxWorkerLen)
  /\ \E byteChunks \in Cuts(input) :
       /\ \A i \in 1..Len(byteChunks) : Len(byteChunks[i]) <= Len(byteChunks[1])
       /\ \A i \in 1..(Len(byteChunks) - 1) : Len(byteChunks[i]) = Len(byteChunks[1])
       /\ csvInitOf(WorkerIdle(byteChunks))

NextCsv ==
  \/ HandleLoad
  \/ HandleAck
  \/ HandlePause
  \/ HandleResume
  \/ HandleAbort
  \/ FetchOk
  \/ FetchFail
  \/ SourceRead
  \/ SourceDone
  \/ SourceError

vars == <<csvVars, tableVars, cacheVars, serverVars, loaderVars>>

SpecParse == InitParse /\ [][NextParse]_vars

SpecParseAbort == InitParse /\ [][NextParseAbort]_vars

(***************************************************************************)
(* parseStream on a header line "a" followed by one record: a quoted field *)
(* that holds a comma, a line break (LF or CR LF) and a doubled quote, in  *)
(* any order, cut into chunks in every way.                                *)
(***************************************************************************)
LineBreaks == {<<LF>>, <<CR, LF>>}

\* the orders in which the three parts appear in the field
Orders == {o \in [1..3 -> 1..3] : \A i, j \in 1..3 : o[i] = o[j] => i = j}

\* the field between its enclosing quotes, as written (escaped) or as meant
QuotedPart(k, br, escaped) ==
  IF k = 1 THEN <<COMMA>>
  ELSE IF k = 2 THEN br
  ELSE IF escaped THEN <<QUOTE, QUOTE>> ELSE <<QUOTE>>

QuotedText(o, br, escaped) ==
  QuotedPart(o[1], br, escaped) \o QuotedPart(o[2], br, escaped)
    \o QuotedPart(o[3], br, escaped)

QuotedInput(o, br) == <<"a", LF, QUOTE>> \o QuotedText(o, br, TRUE) \o <<QUOTE, LF>>

InitQuoted ==
  /\ input \in {QuotedInput(o, br) : o \in Orders, br \in LineBreaks}
  /\ \E byteChunks \in Cuts(input), bs \in BatchSizes : csvInitOf(DirectCall(byteChunks, bs))

SpecQuoted == InitQuoted /\ [][NextParse]_vars

SpecCsv == InitCsv /\ [][NextCsv]_vars

(***************************************************************************)
(* tableWorker's message listener, the settling of its fetches, the clock  *)
(* and the data of the row-range service.                                  *)
(***************************************************************************)
Ev(type, id, rows) == [type |-> type, id |-> id, rows |-> rows]

TStep(t, ev, control) ==
  /\ TBecome(t)
  /\ lastEvent' = ev
  /\ controlCount' = controlCount + control
  /\ UNCHANGED <<csvVars, cacheVars, serverVars, loaderVars>>

\* row lists carried by invalidate messages: rows of one chunk or of two,
\* -1 being a row index the handler skips
InvalidateLists == {<<0>>, <<-1, TableRows>>, <<1, 2>>}

\* start and end of loadRange messages: one with start > end, one at the
\* first index past the rows and one with start < 0 that covers every chunk
Ranges == {<<1, 0>>, <<TableRows, TableRows>>, <<-1, TableRows>>}

LoadRange ==
  /\ nextRequestId + controlCount < MaxMessages
  /\ \E range \in Ranges :
       LET messageStart == range[1]
           messageEnd == range[2]
       IN
       TStep(handleLoadRange(Turn, messageStart, messageEnd),
             Ev("loadRange", nextRequestId + 1, <<messageStart, messageEnd>>), 0)

TableInit ==
  /\ nextRequestId + controlCount < MaxMessages
  /\ \E tb \in Tables, cs \in ChunkSizes, c \in Criteria,
        rc \in {<<>>, <<TableRows>>} :
       TStep(handleInit(Turn, [table |-> tb, chunkSize |-> cs, criteria |-> c,
                            rowCount |-> rc]),
             Ev("init", 0, <<>>), 1)

Invalidate ==
  /\ nextRequestId + controlCount < MaxMessages
  /\ \E rows \in InvalidateLists :
       TStep(handleInvalidate(Turn, rows), Ev("invalidate", 0, rows), 1)

Reset ==
  /\ nextRequestId + controlCount < MaxMessages
  /\ TStep(handleReset(Turn), Ev("reset", 0, <<>>), 1)

FetchResponse ==
  \E id \in DOMAIN fetches :
    /\ fetches[id].stage = "pending"
    /\ TStep(fetchResponded(Turn, id), Ev("response", id, <<>>), 0)

FetchBody ==
  \E id \in DOMAIN fetches :
    /\ fetches[id].stage = "body"
    /\ TStep(fetchCompleted(Turn, id), Ev("body", id, <<>>), 0)

\* the request fails: network error, a response that is not ok, or a body
\* that cannot be read
FetchFailure ==
  \E id \in DOMAIN fetches :
    TStep(fetchRejected(Turn, id, "TransportFailure"), Ev("failure", id, <<>>), 0)

\* Date.now() advances; before any access is recorded its reading is
\* compared with nothing
Tick ==
  \E reading \in Clock :
    /\ chunkMetadata # EmptyMap
    /\ reading > now
    /\ TStep([Turn EXCEPT !.now = reading], Ev("tick", 0, <<>>), 0)

InitTable ==
  /\ input = <<>>
  /\ csvInitOf(WorkerIdle(<<>>))

NextTable ==
  \/ LoadRange
  \/ TableInit
  \/ Invalidate
  \/ Reset
  \/ FetchResponse
  \/ FetchBody
  \/ FetchFailure
  \/ Tick

SpecTable == InitTable /\ [][NextTable]_vars

(***************************************************************************)
(* tableWorker when the consumer also opens a second table, "other", which *)
(* holds no rows.                                                          *)
(***************************************************************************)
OtherTables == {"other"}

TableInitOther ==
  /\ nextRequestId + controlCount < MaxMessages
  /\ \E tb \in OtherTables, cs \in ChunkSizes, c \in Criteria :
     \E rc \in {<<>>, <<ServiceTotal(tb)>>} :
       TStep(handleInit(Turn, [table |-> tb, chunkSize |-> cs, criteria |-> c,
                            rowCount |-> rc]),
             Ev("init", 0, <<>>), 1)

NextTableOther ==
  \/ NextTable
  \/ TableInitOther

SpecTableOther == InitTable /\ [][NextTableOther]_vars

(***************************************************************************)
(* What the consumer has received.                                         *)
(***************************************************************************)
RECURSIVE RowsIn(_)
RowsIn(msgs) ==
  IF msgs = <<>> THEN <<>>
  ELSE (IF Head(msgs).type = "rows" THEN Head(msgs).rows ELSE <<>>) \o RowsIn(Tail(msgs))

RECURSIVE ColumnsIn(_)
ColumnsIn(msgs) ==
  IF msgs = <<>> THEN <<>>
  ELSE (IF Head(msgs).type = "columns" THEN Head(msgs).rows ELSE <<>>) \o ColumnsIn(Tail(msgs))

\* parseStream run to completion with a consumer that is never slow and never aborts
RECURSIVE RunToEnd(_)
RunToEnd(w) ==
  IF w.pc = "read"
  THEN IF w.chunksLeft = <<>>
       THEN RunToEnd(OnReadDone(w))
       ELSE RunToEnd(OnRead([w EXCEPT !.chunksLeft = Tail(@)], Head(w.chunksLeft)))
  ELSE IF w.pc = "onRows" THEN RunToEnd(AfterOnRows(w))
  ELSE w

\* the parse of the same input arriving as one single chunk
SingleChunk == RunToEnd(DirectCall(<<input>>, batchSize))

\* C1: however the input is cut into chunks, a parse that completes has
\* delivered the same header and the same concatenated rows as the parse of
\* the whole input as one chunk.
C1_ChunkIndependence ==
  (mode = "direct" /\ outcome = "resolved") =>
     /\ ColumnsIn(posted) = ColumnsIn(SingleChunk.posted)
     /\ RowsIn(posted) = RowsIn(SingleChunk.posted)

\* a completed parse of an input with a quote that arrived in three or more
\* chunks and delivered a row
C1_Witness ==
  /\ mode = "direct" /\ outcome = "resolved"
  /\ nReads >= 4
  /\ \E i \in 1..Len(input) : input[i] = QUOTE
  /\ Len(RowsIn(posted)) >= 1


(***************************************************************************)
(* Claims about the ack protocol of csvWorker (SpecCsv).                   *)
(***************************************************************************)
RowsPosted == OfType(posted, "rows")

\* the terminal message of the load, if it has posted one
Terminals == SelectSeq(posted, LAMBDA m : m.type \in {"done", "aborted", "error"})

\* C2: once a rows batch has been posted, a step reads the source again or
\* posts another rows batch only if it processes an ack or an abort; and
\* while the promise of an onRows call is pending, parseStream reads or
\* calls onRows again only in the step that resolves that promise.
C2_NoReadNoPostBeforeAck ==
  [][ (nReads' > nReads \/ NRows(posted') > NRows(posted)) =>
        /\ (unreleased => lastMsg'.type \in {"ack", "abort"})
        /\ (pc \in {"ack", "resume", "onRows"} =>
              lastMsg'.type \in {"ack", "resume", "abort", "resolve"}) ]_vars

\* the worker posted a batch, processed its ack and is reading the source again
C2_Witness ==
  /\ mode = "worker" /\ NRows(posted) = 1
  /\ lastMsg.type = "ack" /\ pc = "read" /\ chunksLeft # <<>>

\* the rows of the whole input, as parseStream delivers them undisturbed
AllRows == RowsIn(RunToEnd(DirectCall(<<input>>, batchSize)).posted)

IsPrefix(s, t) == Len(s) <= Len(t) /\ SubSeq(t, 1, Len(s)) = s

\* ids of posted rows batches for which no ack carrying that id was processed
UnackedIds == {RowsPosted[i].id : i \in 1..Len(RowsPosted)} \ acked

\* rows batches carry the ids 1, 2, 3, ... in the order they are posted
C3_IdsIncrease == \A i \in 1..Len(RowsPosted) : RowsPosted[i].id = i

\* the rows posted so far are the first rows of the input, in input order
C3_RowsInOrder == isLoading => IsPrefix(RowsIn(posted), AllRows)

\* C3: within a load at most one posted batch is un-acknowledged, batch ids
\* are 1, 2, 3, ... and the rows arrive in input order, none dropped or
\* duplicated.
C3_SingleBatchPipelining ==
  mode = "worker" =>
    /\ Cardinality(UnackedIds) <= 1
    /\ C3_IdsIncrease
    /\ C3_RowsInOrder

\* C9: a load during which Abort was processed ends with 'aborted'.
C9_AbortedTerminal ==
  (mode = "worker" /\ pc = "closed" /\ aborted) =>
     Terminals[Len(Terminals)].type = "aborted"

\* C10: a load that has processed Abort is not left waiting for the
\* consumer: it has posted its terminal message by the time the worker
\* returns to its event loop, or is waiting for the byte source only.
C10_AbortSettles ==
  (mode = "worker" /\ aborted /\ isLoading) => pc \in {"read", "fetch"}

(***************************************************************************)
(* Claims about tableWorker.                                               *)
(***************************************************************************)
\* C4: in every reachable state the cache holds at most MAX_CACHED_CHUNKS
\* chunks.
C4_CacheBounded == Cardinality(DOMAIN chunks) <= MAX_CACHED_CHUNKS

\* a fetch has completed with the cache at capacity: the request it
\* answers covers row 0, whose chunk has been evicted
C4_Witness ==
  /\ lastEvent.type = "body"
  /\ Cardinality(DOMAIN chunks) = MAX_CACHED_CHUNKS
  /\ ~Has(chunks, 0) /\ ~Has(chunkMetadata, 0)
  /\ \E k \in 1..Len(served) : served[k].start = 0

\* requests awaiting the pending fetch id
Waiting(id) == {fetches[id].waiters[i] : i \in 1..Len(fetches[id].waiters)}

\* C5: requests that are in progress together and arrived with no init,
\* invalidate or reset since the first of them share one fetch of a chunk:
\* two fetches of one chunk are never pending for such requests.
C5_OneFetchPerChunk ==
  \A a, b \in DOMAIN fetches :
    (a # b /\ fetches[a].index = fetches[b].index) =>
      \E r \in Waiting(a) \cup Waiting(b) : requests[r].epoch < controlCount

\* the rows message posted in the last step for the request requestId
RowsMessageFor(requestId) ==
  CHOOSE m \in {tablePosted[j] : j \in 1..Len(tablePosted)} :
    m.type = "rows" /\ m.requestId = requestId

\* indices of the rows carried by a rows message
IndicesOf(m) == {m.rows[j].index : j \in 1..Len(m.rows)}

\* C6: the rows message that answers loadRange(start, end) carries every
\* row i with start <= i <= end and i < rowCount.
C6_RowsComplete ==
  \A k \in 1..Len(served) :
    LET m == RowsMessageFor(served[k].requestId) IN
    \A i \in served[k].start..served[k].end :
      i < m.rowCount => i \in IndicesOf(m)

\* C7: an init message that changes the criteria leaves no chunk cached and
\* no fetch pending, and every chunk cached and every row posted afterwards
\* was fetched under the current criteria.
C7_InitDropsPreviousCriteria ==
  [][ /\ (lastEvent'.type = "init" /\ criteria' # criteria) =>
           (chunks' = EmptyMap /\ fetches' = EmptyMap /\ inflight' = EmptyMap)
      /\ \A c \in DOMAIN chunks' : chunks'[c].criteria = criteria'
      /\ \A j \in 1..Len(tablePosted') :
           tablePosted'[j].type = "rows" =>
             \A i \in 1..Len(tablePosted'[j].rows) :
               tablePosted'[j].rows[i].values.criteria = criteria' ]_vars

\* an init message has changed the criteria while the only request so far
\* had one chunk cached and was awaiting the fetch of the next
C7_Witness ==
  /\ lastEvent.type = "init" /\ criteria = "sorted"
  /\ chunks = EmptyMap /\ nextRequestId = 1 /\ nextFetchId = 2
  /\ \E j \in 1..Len(tablePosted) :
       tablePosted[j].type = "error" /\ tablePosted[j].message = "AbortError"

\* chunk indices floor(row / size) of the listed rows
ChunksOfRows(rows, size) == {rows[i] \div size : i \in 1..Len(rows)}

\* chunk indices covered by loadRange(messageStart, messageEnd)
ChunksOfRange(range, size) ==
  LET start == Max(0, Min(range[1], range[2]))
      end == Max(start, range[2])
  IN (start \div size)..(end \div size)

\* C8: an invalidate message removes exactly the chunks of its rows and
\* leaves the other cached chunks as they are; a loadRange over cached
\* chunks is answered without a fetch.
C8_InvalidateExact ==
  [][ /\ lastEvent'.type = "invalidate" =>
           chunks' = [c \in DOMAIN chunks \ ChunksOfRows(lastEvent'.rows, chunkSize)
                        |-> chunks[c]]
      /\ (/\ lastEvent'.type = "loadRange"
          /\ ChunksOfRange(lastEvent'.rows, chunkSize) \subseteq DOMAIN chunks) =>
           (issued' = <<>> /\ Len(served') = 1) ]_vars

\* after an invalidate message removed a chunk (its metadata is left
\* behind), a loadRange over a chunk that stayed is answered from the cache
C8_Witness ==
  /\ lastEvent.type = "loadRange"
  /\ issued = <<>> /\ Len(served) = 1
  /\ \E c \in DOMAIN chunkMetadata : ~Has(chunks, c)

(***************************************************************************)
(* Claims about the terminal message, Pause and the ack id of csvWorker    *)
(* (SpecCsv).                                                              *)
(***************************************************************************)
TerminalTypes == {"done", "aborted", "error"}

\* C11: a load posts at most one terminal message, a terminal message is
\* the last message posted and is posted exactly when the load has
\* settled; while no load has started (Abort messages included) nothing is
\* posted.
C11_OneTerminal ==
  mode = "worker" =>
    /\ Len(Terminals) <= 1
    /\ Len(Terminals) = 1 =>
         (posted[Len(posted)].type \in TerminalTypes /\ pc = "closed")
    /\ pc = "closed" => Len(Terminals) = 1
    /\ pc = "idle" => posted = <<>>

\* a load that delivered rows has settled on an Abort message
C11_Witness ==
  /\ mode = "worker" /\ pc = "closed" /\ lastMsg.type = "abort"
  /\ NRows(posted) >= 1
  /\ posted[Len(posted)].type = "aborted"

\* C12: while Pause is in force a producer that awaits an ack or a Resume
\* reads nothing and posts no rows unless the step processes Resume, and a
\* step posts at most one rows batch, after which the producer awaits its
\* ack: at most one batch follows Pause.
C12_PauseHolds ==
  [][ mode = "worker" =>
        /\ (paused /\ pc \in {"ack", "resume"}
              /\ (nReads' > nReads \/ NRows(posted') > NRows(posted)))
             => lastMsg'.type = "resume"
        /\ NRows(posted') <= NRows(posted) + 1
        /\ (paused /\ NRows(posted') > NRows(posted) /\ lastMsg'.type # "resume")
             => pc' = "ack" ]_vars

\* Pause is in force, the batch posted last has been acked and the producer
\* waits for Resume with input left to read
C12_Witness ==
  /\ mode = "worker" /\ paused /\ pc = "resume"
  /\ lastMsg.type = "ack" /\ NRows(posted) >= 1
  /\ chunksLeft # <<>>

\* C13: an ack whose id is not the id of the batch awaiting acknowledgement
\* leaves the producer suspended in waitForAck.
C13_AckIdMatches ==
  [][ (mode = "worker" /\ pc = "ack" /\ lastMsg'.type = "ack"
         /\ lastMsg'.id # nextBatchId)
        => (pc' = "ack" /\ resolveAck') ]_vars

(***************************************************************************)
(* Claims about quoted fields (SpecQuoted) and about the abort signal of   *)
(* parseStream (SpecParseAbort).                                           *)
(***************************************************************************)
\* C14: a completed parse delivers the quoted field as the only field of
\* the only row, with its comma and its line break kept and the doubled
\* quote as one quote character, however the input was cut into chunks.
C14_QuotedFieldIntact ==
  (mode = "direct" /\ outcome = "resolved") =>
    \E o \in Orders, br \in LineBreaks :
      /\ input = QuotedInput(o, br)
      /\ ColumnsIn(posted) = << << <<"a">> >> >>
      /\ RowsIn(posted) = << << QuotedText(o, br, FALSE) >> >>

\* the input arrived byte by byte: a chunk boundary lies between the two
\* quotes of the doubled quote and between the carriage return and the
\* line feed
C14_Witness ==
  /\ mode = "direct" /\ outcome = "resolved"
  /\ nReads = Len(input) + 1
  /\ \E i \in 1..Len(input) : input[i] = CR
  /\ Len(RowsIn(posted)) = 1

(***************************************************************************)
(* Claims about the fetches of tableWorker (SpecTable).                    *)
(***************************************************************************)
\* C15: no two fetches that have been issued and have not yet settled are
\* for the same chunk index.
C15_OneInflightPerChunk ==
  \A a, b \in DOMAIN fetches : a # b => fetches[a].index # fetches[b].index

\* C16: no rows message carries data of a chunk whose fetch was issued before
\* an invalidate of that chunk that has since been processed.
C16_NoPreInvalidateData ==
  \A i \in 1..Len(tablePosted) :
    tablePosted[i].type = "rows" =>
      \A j \in 1..Len(tablePosted[i].rows) : ~tablePosted[i].rows[j].values.stale

\* C17: every row of the rows message that answers a loadRange has an index
\* between the start and the end of that request.
C17_RowsWithinRange ==
  \A k \in 1..Len(served) :
    \A i \in 1..Len(tablePosted) :
      (tablePosted[i].type = "rows" /\ tablePosted[i].requestId = served[k].requestId)
        => \A j \in 1..Len(tablePosted[i].rows) :
             /\ tablePosted[i].rows[j].index >= served[k].start
             /\ tablePosted[i].rows[j].index <= served[k].end

\* chunk indices of the range of a loadRange message that are not cached
MissingChunks(range) == {c \in ChunksOfRange(range, chunkSize) : ~Has(chunks, c)}

\* chunk indices for which a fetch has been issued and has not settled
ChunksInFlight == {fetches[id].index : id \in DOMAIN fetches}

\* C18: a fetch is only ever issued for a chunk that is not cached and for
\* which no fetch is in flight, at most once per chunk; the handling of a
\* loadRange message issues fetches only for chunks of its range: none when
\* they are all cached, and for the first chunk that is not cached exactly
\* one unless a fetch for it is in flight (the chunks after it are fetched
\* in the same way when it has arrived).
C18_FetchOnlyMissing ==
  [][ /\ \A k \in 1..Len(issued') :
           /\ ~Has(chunks', issued'[k].index)
           /\ issued'[k].index \notin ChunksInFlight
           /\ \A l \in 1..Len(issued') : issued'[l].index = issued'[k].index => l = k
      /\ lastEvent'.type = "loadRange" =>
           LET missing == MissingChunks(lastEvent'.rows) IN
           /\ \A k \in 1..Len(issued') :
                issued'[k].index \in ChunksOfRange(lastEvent'.rows, chunkSize)
           /\ IF missing = {} THEN issued' = <<>>
              ELSE LET first == CHOOSE c \in missing : \A o \in missing : c <= o IN
                   IF first \in ChunksInFlight THEN issued' = <<>>
                   ELSE Len(issued') = 1 /\ issued'[1].index = first ]_vars

(***************************************************************************)
(* Claims about the abort signal of parseStream (SpecParseAbort).          *)
(***************************************************************************)
\* C19: once the signal is aborted parseStream does not invoke onRows again
\* and, unless the reader itself fails, settles by rejecting with
\* AbortError; the batches delivered before stay delivered.
C19_AbortRejects ==
  [][ (mode = "direct" /\ abortController = "aborted") =>
        /\ OfType(posted', "rows") = OfType(posted, "rows")
        /\ (pc' = "settled" /\ lastMsg'.type # "readError")
             => outcome' = "AbortError" ]_vars

\* C20: the rejection of a fetch that was aborted by an init with changed
\* filters or sort, or by a reset, is not posted as an error message,
\* neither for the fetch nor for the loadRange requests that await it.
C20_AbortNotError ==
  \A i \in 1..Len(tablePosted) :
    ~(tablePosted[i].type = "error" /\ tablePosted[i].message = "AbortError")

(***************************************************************************)
(* Claims about the messages tableWorker posts (SpecTable).                *)
(***************************************************************************)
\* requests that were waiting before a step, or arrived with it, and are
\* settled by it
SettledBy(before, after, arrived) == (DOMAIN before \cup arrived) \ DOMAIN after

\* C21: a step posts at most one terminal message (rows or error) per
\* loadRange request, only for requests it settles, and no more error
\* messages than the requests it settles: a failed fetch is reported once to
\* each request that waited on it and not otherwise.
C21_OneTerminalPerRequest ==
  [][ LET terminal == SelectSeq(tablePosted', LAMBDA m : m.type \in {"rows", "error"})
          settled == SettledBy(requests, requests', (nextRequestId + 1)..nextRequestId')
      IN /\ \A i, j \in 1..Len(terminal) :
              (terminal[i].requestId # 0
                 /\ terminal[i].requestId = terminal[j].requestId) => i = j
         /\ \A i \in 1..Len(terminal) :
              terminal[i].requestId # 0 => terminal[i].requestId \in settled
         /\ Len(OfType(tablePosted', "error")) <= Cardinality(settled) ]_vars

(***************************************************************************)
(* Claims about the records of parseStream (SpecParse).                    *)
(***************************************************************************)
\* the input starts with a blank line: its first record is empty
StartsWithBlankLine(bytes) ==
  \/ Len(bytes) >= 1 /\ bytes[1] = LF
  \/ Len(bytes) >= 2 /\ bytes[1] = CR /\ bytes[2] = LF

\* C22: when the input starts with a blank line, a completed parse has
\* called onColumns first with the header of that empty record, a single
\* empty field.
C22_EmptyFirstRecordIsHeader ==
  (mode = "direct" /\ outcome = "resolved" /\ StartsWithBlankLine(input)) =>
    /\ Len(ColumnsIn(posted)) >= 1
    /\ ColumnsIn(posted)[1] = << <<>> >>

\* C23: when a completed parse ended inside a quoted field that was never
\* closed, the text left in carry has been parsed and delivered as the last
\* record: as the last row, or as the header when none had been seen.
C23_UnterminatedQuoteDelivered ==
  (mode = "direct" /\ outcome = "resolved" /\ inQuotes /\ carry # <<>>) =>
    IF headerParsed
    THEN /\ RowsIn(posted) # <<>>
         /\ RowsIn(posted)[Len(RowsIn(posted))] = parseLine(carry)
    ELSE ColumnsIn(posted) = <<parseLine(carry)>>

\* C24: the pending batch never holds more than batchSize rows, and every
\* batch handed to onRows holds at least one row and at most batchSize.
C24_BatchBounded ==
  mode = "direct" =>
    /\ Len(batch) <= batchSize
    /\ \A i \in 1..Len(posted) :
         posted[i].type = "rows" =>
           (Len(posted[i].rows) >= 1 /\ Len(posted[i].rows) <= batchSize)

\* a completed parse with batchSize 2 whose second row filled the batch,
\* which was then handed to onRows
C24_Witness ==
  /\ mode = "direct" /\ outcome = "resolved" /\ batchSize = 2
  /\ NRows(posted) = 1
  /\ Len(OfType(posted, "rows")[1].rows) = 2
  /\ batch = <<>>

(***************************************************************************)
(* Claims about eviction and the contents of rows messages (SpecTable).    *)
(***************************************************************************)
\* accessCount * 1000 - age of a cached chunk at the current clock reading
ScoreNow(c) ==
  chunkMetadata[c].accessCount * ScoreWeight - (now - chunkMetadata[c].lastAccess)

\* C25: when the body of a fetch arrives for a chunk that is not cached and
\* the cache is at capacity, exactly one chunk is evicted; no cached chunk
\* has a lower score, and no cached chunk with the same score was accessed
\* less recently.
C25_EvictsLowestScore ==
  [][ (/\ lastEvent'.type = "body"
       /\ Cardinality(DOMAIN chunks) >= MAX_CACHED_CHUNKS
       /\ fetches[lastEvent'.id].index \notin DOMAIN chunks)
      => /\ \A c \in DOMAIN chunks : Has(chunkMetadata, c)
         /\ \E e \in DOMAIN chunks :
              /\ DOMAIN chunks' = (DOMAIN chunks \ {e}) \cup {fetches[lastEvent'.id].index}
              /\ \A c \in DOMAIN chunks :
                   /\ ScoreNow(e) <= ScoreNow(c)
                   /\ ScoreNow(e) = ScoreNow(c) =>
                        chunkMetadata[e].lastAccess <= chunkMetadata[c].lastAccess ]_vars

\* chunk 2 has just been inserted into a full cache and chunk 1, which had
\* the lower score although chunk 0 was accessed before it, has been evicted
C25_Witness ==
  /\ lastEvent.type = "body"
  /\ DOMAIN chunks = {0, 2}
  /\ chunkAccessOrder = <<0, 2>>
  /\ ~Has(chunkMetadata, 1)
  /\ ~Has(chunkETags, 1)
  /\ lastEvent.id = 3 /\ nextFetchId = 3 /\ fetches = EmptyMap
  /\ \E k \in 1..Len(served) : served[k].start = 0 /\ served[k].end = TableRows

\* C27: every row of a rows message comes from a chunk that is cached when
\* the message is gathered, and a rows message gathered when the body of a
\* fetch has just reported the table's total carries that total as rowCount.
C27_RowsCachedAndCounted ==
  [][ \A i \in 1..Len(tablePosted') :
        tablePosted'[i].type = "rows" =>
          /\ \A j \in 1..Len(tablePosted'[i].rows) :
               Has(chunks', tablePosted'[i].rows[j].index \div chunkSize')
          /\ lastEvent'.type = "body" =>
               tablePosted'[i].rowCount = ServiceTotal(fetches[lastEvent'.id].table) ]_vars

\* C28: a loadRange that is answered as it arrives delivers only rows that
\* were fetched for the table the worker serves at that time: after an init
\* that names another table, no chunk of the previous table is served.
C28_NoRowsOfPreviousTable ==
  [][ lastEvent'.type = "loadRange" =>
        \A i \in 1..Len(tablePosted') :
          tablePosted'[i].type = "rows" =>
            \A j \in 1..Len(tablePosted'[i].rows) :
              tablePosted'[i].rows[j].values.table = table' ]_vars

(***************************************************************************)
(* The calls on the exported responseCache, in any order, and the clock.   *)
(* Keys are strings, the empty string among them; the data are numbers.    *)
(***************************************************************************)
CacheKeys == {<<>>, <<"a">>, <<"a", "b">>}

Patterns == CacheKeys \cup {<<"b">>}

CacheData == {1, 2}

TTLs == {1}

CStep(c, call) ==
  /\ cache' = c
  /\ lastCall' = call
  /\ UNCHANGED <<maxSize, ttl, clock, csvVars, tableVars, serverVars, loaderVars>>

CacheSet ==
  \E key \in CacheKeys, data \in CacheData :
    CStep(set(cache, maxSize, key, data, clock), Call("set", key, <<generateETag(data)>>))

CacheGet ==
  \E key \in CacheKeys :
    LET r == get(cache, ttl, key, clock)
    IN CStep(r.cache, Call("get", key, r.returned))

CacheCheckETag ==
  \E key \in CacheKeys, data \in CacheData :
    CStep(cache, Call("checkETag", key, <<checkETag(cache, key, generateETag(data))>>))

CacheClear == CStep(<<>>, Call("clear", <<>>, <<>>))

CacheInvalidate ==
  \E pattern \in Patterns : CStep(invalidate(cache, pattern), Call("invalidate", pattern, <<>>))

SetMaxSize ==
  \E size \in 1..MaxCacheSize :
    /\ maxSize' = size
    /\ lastCall' = Call("setMaxSize", <<>>, <<>>)
    /\ UNCHANGED <<cache, ttl, clock, csvVars, tableVars, serverVars, loaderVars>>

SetTTL ==
  \E ms \in TTLs :
    /\ ttl' = ms
    /\ lastCall' = Call("setTTL", <<>>, <<>>)
    /\ UNCHANGED <<cache, maxSize, clock, csvVars, tableVars, serverVars, loaderVars>>

CacheTick ==
  /\ clock < MaxClock
  /\ clock' = clock + 1
  /\ lastCall' = Call("tick", <<>>, <<>>)
  /\ UNCHANGED <<cache, maxSize, ttl, csvVars, tableVars, serverVars, loaderVars>>

InitCache ==
  /\ input = <<>>
  /\ csvInitOf(WorkerIdle(<<>>))

NextCache ==
  \/ CacheSet
  \/ CacheGet
  \/ CacheCheckETag
  \/ CacheClear
  \/ CacheInvalidate
  \/ SetMaxSize
  \/ SetTTL
  \/ CacheTick

SpecCache == InitCache /\ [][NextCache]_vars

(***************************************************************************)
(* C29: with maxSize fixed at N >= 1 the cache never holds more than N     *)
(* entries (a call that finds at most N entries leaves at most N), and a   *)
(* set that finds the cache full removes exactly one entry, the first of   *)
(* the Map, whose key was inserted earliest: every other entry's key stays *)
(* and the first key is gone, or comes back last when it is the key set.   *)
(***************************************************************************)
C29_BoundedAndEvictsEarliest ==
  [][(maxSize' = maxSize /\ maxSize >= 1 /\ Len(cache) <= maxSize)
       => /\ Len(cache') <= maxSize
          /\ (lastCall'.method = "set" /\ cache' # cache /\ Len(cache) = maxSize)
               => /\ \A i \in 2..Len(cache) : HasKey(cache', cache[i].key)
                  /\ IF lastCall'.key = Head(cache).key
                     THEN cache'[Len(cache')].key = Head(cache).key
                     ELSE ~HasKey(cache', Head(cache).key)]_vars

\* the loaded values passed to onProgress so far, in order
LoadedReports == [i \in 1..Len(OfType(posted, "progress")) |-> OfType(posted, "progress")[i].loaded]

(***************************************************************************)
(* C30: the loaded value reported through onProgress never decreases       *)
(* during a parse, and when the parse has resolved the last onProgress     *)
(* call reports the total byte length of the ByteChunks read.              *)
(***************************************************************************)
C30_ProgressMonotoneAndTotal ==
  /\ \A i \in 1..(Len(LoadedReports) - 1) : LoadedReports[i] <= LoadedReports[i + 1]
  /\ outcome = "resolved"
       => /\ LoadedReports # <<>>
          /\ LoadedReports[Len(LoadedReports)] = Len(input) - Len(Flatten(chunksLeft))

\* a resolved parse of three bytes or more read in two ByteChunks or more,
\* the second smaller than the first
C30_Witness ==
  /\ outcome = "resolved"
  /\ Len(LoadedReports) >= 3
  /\ LoadedReports[1] > 0
  /\ LoadedReports[2] > LoadedReports[1]
  /\ LoadedReports[2] - LoadedReports[1] < LoadedReports[1]
  /\ LoadedReports[Len(LoadedReports)] = Len(input)

(***************************************************************************)
(* C34: the update made when a fetch completes is one atomic step: a step  *)
(* that stores the etag of a chunk also inserts that chunk and records its *)
(* access, so no handler runs between the parts of the update.             *)
(***************************************************************************)
C34_CompletionAtomic ==
  [][ \A c \in DOMAIN chunkETags' :
        (~Has(chunkETags, c) \/ chunkETags[c] # chunkETags'[c])
          => /\ Has(chunks', c)
             /\ Has(chunkMetadata', c)
             /\ rowCount' = chunkETags'[c].rowCount ]_vars

(***************************************************************************)
(* C36: once the service has reported a total row count for the active     *)
(* criteria (a chunk fetched for the active table and criteria is cached,  *)
(* and its page carried the total), every rows message posted afterwards   *)
(* carries exactly that total, a total of 0 included.                      *)
(***************************************************************************)
C36_RowsCarryReportedTotal ==
  [][ \A i \in 1..Len(tablePosted') :
        tablePosted'[i].type = "rows" =>
          \A c \in DOMAIN chunks' :
            (chunks'[c].table = table' /\ chunks'[c].criteria = criteria')
              => tablePosted'[i].rowCount = chunks'[c].rowCount ]_vars

\* the entries of a sequence, as a set
Elements(seq) == {seq[i] : i \in 1..Len(seq)}

(***************************************************************************)
(* C37: whenever a chunk leaves the cache (eviction, invalidate, reset or  *)
(* init), its access metadata, its etag and its recency entry leave with   *)
(* it in the same step, so the three hold no key of a chunk just removed.  *)
(***************************************************************************)
C37_RemovedWithItsRecords ==
  [][ \A c \in DOMAIN chunks \ DOMAIN chunks' :
        /\ ~Has(chunkMetadata', c)
        /\ ~Has(chunkETags', c)
        /\ c \notin Elements(chunkAccessOrder') ]_vars

(***************************************************************************)
(* tableWorker in the run that gives revalidation its occasion: an init, a *)
(* loadRange whose fetches all complete, an invalidate that removes a      *)
(* cached chunk (its etag stays stored), then a loadRange over every chunk *)
(* that fetches the removed chunk again.  Messages posted to the worker    *)
(* are delivered and its fetches settle, so the run goes to its end.       *)
(***************************************************************************)
Settled == fetches = EmptyMap /\ requests = EmptyMap

RevalidateInit ==
  /\ lastEvent.type = "none"
  /\ \E tb \in Tables, cs \in ChunkSizes, c \in Criteria,
        rc \in {<<>>, <<TableRows>>} :
       TStep(handleInit(Turn, [table |-> tb, chunkSize |-> cs, criteria |-> c,
                            rowCount |-> rc]),
             Ev("init", 0, <<>>), 1)

RevalidateLoad ==
  /\ controlCount = 1 /\ nextRequestId = 0
  /\ \E range \in Ranges :
       TStep(handleLoadRange(Turn, range[1], range[2]),
             Ev("loadRange", nextRequestId + 1, range), 0)

RevalidateInvalidate ==
  /\ controlCount = 1 /\ nextRequestId = 1 /\ Settled
  /\ \E rows \in InvalidateLists :
       /\ \E i \in 1..Len(rows) : rows[i] >= 0 /\ Has(chunks, rows[i] \div chunkSize)
       /\ TStep(handleInvalidate(Turn, rows), Ev("invalidate", 0, rows), 1)

RevalidateReload ==
  /\ controlCount = 2 /\ nextRequestId = 1
  /\ TStep(handleLoadRange(Turn, -1, TableRows),
           Ev("loadRange", nextRequestId + 1, <<-1, TableRows>>), 0)

NextRevalidate ==
  \/ RevalidateInit
  \/ RevalidateLoad
  \/ RevalidateInvalidate
  \/ RevalidateReload
  \/ FetchResponse
  \/ FetchBody
  \/ Tick

SpecRevalidate == InitTable /\ [][NextRevalidate]_vars

(***************************************************************************)
(* C38: there is an execution in which a chunk fetch carries the etag that *)
(* an earlier fetch of the same chunk key stored: in the run above, where  *)
(* the reload fetches again a chunk whose etag is stored, a fetch issued   *)
(* for a chunk key whose etag an earlier fetch stored carries an etag.     *)
(***************************************************************************)
C38_RevalidationOccurs ==
  [][ \A i \in 1..Len(issued') :
        Has(chunkETags, issued'[i].index) => issued'[i].ifNoneMatch # <<>> ]_vars

\* the rows messages posted so far
RowsMessages == OfType(posted, "rows")

(***************************************************************************)
(* C39: when a completed parse ended outside quotes with text left in      *)
(* carry, that text has been parsed as a final record: it is the header    *)
(* given to onColumns when no header had been seen, otherwise the last row *)
(* of the last batch given to onRows.                                      *)
(***************************************************************************)
C39_TrailingRecordDelivered ==
  (mode = "direct" /\ outcome = "resolved" /\ ~inQuotes /\ carry # <<>>) =>
    IF headerParsed
    THEN /\ RowsMessages # <<>>
         /\ LET last == RowsMessages[Len(RowsMessages)].rows
            IN last[Len(last)] = parseLine(carry)
    ELSE ColumnsIn(posted) = <<parseLine(carry)>>

\* a completed parse whose input ends, after the header line, with a record
\* of two fields that no line break follows
C39_Witness ==
  /\ mode = "direct" /\ outcome = "resolved" /\ ~inQuotes /\ headerParsed
  /\ Len(parseLine(carry)) = 2
  /\ RowsIn(posted) # <<>>
  /\ RowsIn(posted)[Len(RowsIn(posted))] = parseLine(carry)

(***************************************************************************)
(* C40: checkETag(key, etag) returns true only if get(key), called at the  *)
(* same moment, would return an entry, which then carries that etag: no    *)
(* match is reported for an entry whose TTL has expired.                   *)
(***************************************************************************)
C40_CheckETagHonoursTTL ==
  (lastCall.method = "checkETag" /\ lastCall.returned = <<TRUE>>)
    => get(cache, ttl, lastCall.key, clock).returned # <<>>

(***************************************************************************)
(* The routes /api/db/preview and /api/db/mutate on one table.  A handler  *)
(* runs up to its await of the database task; the task's completion and    *)
(* the rest of the handler are one step, since the handler resumes in the  *)
(* microtasks of the task's completion, before any other request or any    *)
(* other task's I/O is handled.  Requests carry no sort.                   *)
(***************************************************************************)
\* mutations per run, database tasks waiting at one time
MaxUpdates == 2
MaxQueue == 2

PreviewTable == "t"

\* the offset parameter of preview requests, as text
Offsets == {"0", "2"}

\* `preview:${table}:${offsetParam}:${limitParam}:${sortParam ?? ""}`
cacheKey(tb, offset) == <<"preview", ":", tb, ":", offset, ":", "2000", ":">>

\* `preview:${table}:`
invalidatePattern(tb) == <<"preview", ":", tb, ":">>

\* the If-None-Match header of a request: none, or an etag of some contents
IfNoneMatch == {<<>>} \cup {<<generateETag(v)>> : v \in 0..MaxUpdates}

Task(type, key, arrivedAt) == [type |-> type, key |-> key, arrivedAt |-> arrivedAt]

ServerStep(c, q, d, a) ==
  /\ cache' = c
  /\ dbQueue' = q
  /\ dbData' = d
  /\ lastAnswer' = a
  /\ UNCHANGED <<maxSize, ttl, clock, lastCall, csvVars, tableVars, loaderVars>>

\* GET /api/db/preview up to its response or to "await getTableChunk(...)"
PreviewRequest ==
  \E offset \in Offsets, ifNoneMatch \in IfNoneMatch :
    LET key == cacheKey(PreviewTable, offset)
        cached == get(cache, ttl, key, clock)
    IN IF ifNoneMatch # <<>> /\ checkETag(cache, key, ifNoneMatch[1])
       THEN ServerStep(cache, dbQueue, dbData,
                       Answer("preview", 304, EntryOf(cache, key).data, "etag", dbData))
       ELSE IF cached.returned # <<>>
       THEN ServerStep(cached.cache, dbQueue, dbData,
                       Answer("preview", 200, cached.returned[1].data, "cache", dbData))
       ELSE /\ Len(dbQueue) < MaxQueue
            /\ ServerStep(cached.cache, Append(dbQueue, Task("chunk", key, dbData)),
                          dbData, NoAnswer)

\* POST /api/db/mutate up to "await updateTableCells(...)"
MutateRequest ==
  /\ Len(dbQueue) < MaxQueue
  /\ dbData + Len(SelectSeq(dbQueue, LAMBDA task : task.type = "update")) < MaxUpdates
  /\ ServerStep(cache, Append(dbQueue, Task("update", <<>>, dbData)), dbData, NoAnswer)

\* getTableChunk completes: the handler stores the response and sends it
DbChunkDone ==
  /\ dbQueue # <<>> /\ Head(dbQueue).type = "chunk"
  /\ ServerStep(set(cache, maxSize, Head(dbQueue).key, dbData, clock), Tail(dbQueue),
                dbData, Answer("preview", 200, dbData, "store", Head(dbQueue).arrivedAt))

\* updateTableCells commits: the handler invalidates and answers
DbUpdateDone ==
  /\ dbQueue # <<>> /\ Head(dbQueue).type = "update"
  /\ ServerStep(invalidate(cache, invalidatePattern(PreviewTable)), Tail(dbQueue),
                dbData + 1,
                Answer("mutate", 200, dbData + 1, "store", Head(dbQueue).arrivedAt))

\* updateTableCells rolls back and throws: the handler answers 500
DbUpdateFailed ==
  /\ dbQueue # <<>> /\ Head(dbQueue).type = "update"
  /\ ServerStep(cache, Tail(dbQueue), dbData,
                Answer("mutate", 500, dbData, "store", Head(dbQueue).arrivedAt))

NextPreview ==
  \/ PreviewRequest
  \/ MutateRequest
  \/ DbChunkDone
  \/ DbUpdateDone
  \/ DbUpdateFailed
  \/ SetTTL
  \/ CacheTick

SpecPreview == InitCache /\ [][NextPreview]_vars

(***************************************************************************)
(* C35: once a mutation of the table has succeeded, no preview request is  *)
(* answered (200 from the cache, 200 from the store, or 304) from contents *)
(* read before that mutation: the contents behind every preview answer are *)
(* the committed contents at the time of the answer.                       *)
(***************************************************************************)
C35_NoStalePreview ==
  (lastAnswer.route = "preview" /\ lastAnswer.status \in {200, 304})
    => lastAnswer.data >= dbData

\* a preview request that arrived before a mutation succeeded and is
\* answered from the store after it, with the contents the mutation wrote
C35_Witness ==
  /\ lastAnswer.route = "preview" /\ lastAnswer.status = 200
  /\ lastAnswer.from = "store"
  /\ lastAnswer.arrivedAt < dbData
  /\ lastAnswer.data = dbData

(***************************************************************************)
(* useCSVLoader with a table source that names a table already held by the *)
(* store (no url, no file): loadSource, the client's ensureRange,          *)
(* setFiltersAndSort, cancel, reset and the worker's onmessage, composed   *)
(* with tableWorker over the two message channels.  A step of the hook is  *)
(* one call or one delivered message; setState is applied at once.         *)
(***************************************************************************)
\* calls of the hook's functions per run
MaxCalls == 3

\* ranges asked by the grid
LoaderRanges == {<<2, 3>>}

L == [client |-> client, loadedRows |-> loadedRows, stateRows |-> stateRows,
      stateRowCount |-> stateRowCount, toWorker |-> toWorker, toMain |-> toMain,
      promises |-> promises, abandoned |-> abandoned, freshFrom |-> freshFrom]

LBecome(l) ==
  /\ client' = l.client /\ loadedRows' = l.loadedRows /\ stateRows' = l.stateRows
  /\ stateRowCount' = l.stateRowCount /\ toWorker' = l.toWorker /\ toMain' = l.toMain
  /\ promises' = l.promises /\ abandoned' = l.abandoned /\ freshFrom' = l.freshFrom

InitMessage(tb, cs, c) ==
  [type |-> "init", table |-> tb, chunkSize |-> cs, criteria |-> c, rowCount |-> <<>>]

LoadRangeMessage(requestId, start, end) ==
  [type |-> "loadRange", requestId |-> requestId, start |-> start, end |-> end]

\* ensureRangeRef.current(start, end)
callEnsureRange(l, start, end) ==
  IF l.client = <<>> THEN l
  ELSE LET active == l.client[1]
           cappedStart == Max(0, start)
           cappedEnd == Max(cappedStart, end)
           requestId == active.nextRequestId
       IN [l EXCEPT !.client = <<[active EXCEPT !.nextRequestId = @ + 1,
                                               !.pending = @ \cup {requestId}]>>,
                    !.toWorker = Append(@, LoadRangeMessage(requestId, cappedStart,
                                                            cappedEnd)),
                    !.promises = Put(@, requestId, "pending")]

\* cleanupWorker(duckdbClientRef.current.worker); duckdbClientRef.current = null:
\* the worker is terminated, nothing it posted is delivered any more, and
\* the pending map is dropped with the client
dropClient(l) ==
  IF l.client = <<>> THEN l
  ELSE [l EXCEPT !.client = <<>>, !.toWorker = <<>>, !.toMain = <<>>,
                 !.abandoned = @ + Cardinality(l.client[1].pending)]

loadSource(l, cs) ==
  LET l1 == [dropClient(l) EXCEPT !.stateRows = NoRows, !.stateRowCount = 0,
                                  !.loadedRows = {}, !.promises = EmptyMap,
                                  !.freshFrom = 0]
      l2 == [l1 EXCEPT !.client = <<[chunkSize |-> cs, table |-> "dataset",
                                     nextRequestId |-> 1, pending |-> {}]>>,
                       !.toWorker = <<InitMessage("dataset", cs, "plain")>>]
  IN callEnsureRange(l2, 0, cs - 1)

setFiltersAndSort(l, c) ==
  IF l.client = <<>> THEN l
  ELSE LET active == l.client[1]
           l1 == [l EXCEPT !.toWorker = Append(@, InitMessage(active.table,
                                                             active.chunkSize, c)),
                           !.loadedRows = {},
                           !.freshFrom = active.nextRequestId]
       IN callEnsureRange(l1, 0, active.chunkSize - 1)

cancel(l) == [dropClient(l) EXCEPT !.loadedRows = {}]

reset(l) ==
  [dropClient(l) EXCEPT !.loadedRows = {}, !.stateRows = NoRows, !.stateRowCount = 0]

\* the promise of a request leaves the pending map and settles
settle(l, requestId, how) ==
  LET active == l.client[1]
  IN IF requestId \in active.pending
     THEN [l EXCEPT !.client = <<[active EXCEPT !.pending = @ \ {requestId}]>>,
                    !.promises = Put(@, requestId, how)]
     ELSE l

\* worker.onmessage, case "rows"
onTableRows(l, data) ==
  LET previousRowCount == IF l.stateRowCount > 0 THEN l.stateRowCount
                          ELSE l.stateRows.length
      indices == {data.rows[i].index : i \in 1..Len(data.rows)}
      highestIndex == IF indices = {} THEN 0
                      ELSE (CHOOSE x \in indices : \A y \in indices : y <= x) + 1
      resolvedRowCount == Max(data.rowCount, highestIndex)
      rowCountChanged == previousRowCount # resolvedRowCount
      base == IF rowCountChanged THEN EmptyMap ELSE l.stateRows.cells
      length == IF rowCountChanged THEN resolvedRowCount
                ELSE Max(l.stateRows.length, resolvedRowCount)
      written == {x \in indices : x >= 0 /\ x < resolvedRowCount}
      valuesOf(x) == data.rows[CHOOSE i \in 1..Len(data.rows) : data.rows[i].index = x].values
      l1 == [l EXCEPT !.stateRows = [length |-> length,
                                     cells |-> [x \in DOMAIN base \cup written |->
                                                  IF x \in written THEN valuesOf(x)
                                                  ELSE base[x]]],
                      !.stateRowCount = resolvedRowCount,
                      !.loadedRows = @ \cup written]
  IN settle(l1, data.requestId, "resolved")

\* worker.onmessage
onTableMessage(l, data) ==
  IF l.client = <<>> THEN l
  ELSE IF data.type = "ready" THEN [l EXCEPT !.stateRowCount = data.rowCount]
  ELSE IF data.type = "rows" THEN onTableRows(l, data)
  ELSE IF data.requestId # 0 THEN settle(l, data.requestId, "rejected")
  ELSE l

\* a call of one of the hook's functions
LoaderCall(l, name) ==
  /\ calls < MaxCalls
  /\ LBecome(l)
  /\ calls' = calls + 1
  /\ lastLoader' = Handled(name, 0)
  /\ UNCHANGED <<consumer, csvVars, cacheVars, serverVars>>

\* loadSource creates a new worker
LoadSource ==
  \E cs \in ChunkSizes :
    /\ LoaderCall(loadSource(L, cs), "loadSource")
    /\ TBecome(TableIdle)
    /\ lastEvent' = [type |-> "none", id |-> 0, rows |-> {}]
    /\ controlCount' = 0

EnsureRange ==
  /\ client # <<>>
  /\ \E range \in LoaderRanges :
       LoaderCall(callEnsureRange(L, range[1], range[2]), "ensureRange")
  /\ UNCHANGED tableVars

SetFiltersAndSort ==
  /\ client # <<>>
  /\ \E c \in Criteria : LoaderCall(setFiltersAndSort(L, c), "setFiltersAndSort")
  /\ UNCHANGED tableVars

Cancel ==
  /\ client # <<>>
  /\ LoaderCall(cancel(L), "cancel")
  /\ UNCHANGED tableVars

LoaderReset ==
  /\ client # <<>>
  /\ LoaderCall(reset(L), "reset")
  /\ UNCHANGED tableVars

\* the hook's onmessage receives the next message of the worker
MainReceive ==
  /\ client # <<>> /\ toMain # <<>>
  /\ LBecome(onTableMessage([L EXCEPT !.toMain = Tail(@)], Head(toMain)))
  /\ lastLoader' = Handled(Head(toMain).type, Head(toMain).requestId)
  /\ UNCHANGED <<calls, consumer, csvVars, tableVars, cacheVars, serverVars>>

\* a step of the running worker: what it posts goes to the hook
WorkerStep(t, ev, control, rest) ==
  /\ client # <<>>
  /\ TBecome(t)
  /\ lastEvent' = ev
  /\ controlCount' = controlCount + control
  /\ toMain' = toMain \o t.tablePosted
  /\ toWorker' = rest
  /\ lastLoader' = Handled("worker", 0)
  /\ UNCHANGED <<client, loadedRows, stateRows, stateRowCount, promises, abandoned,
                 freshFrom, calls, consumer, csvVars, cacheVars, serverVars>>

WorkerReceive ==
  /\ toWorker # <<>>
  /\ LET data == Head(toWorker)
     IN IF data.type = "init"
        THEN WorkerStep(handleInit(Turn, data), Ev("init", 0, <<>>), 1, Tail(toWorker))
        ELSE WorkerStep(handleLoadRange(Turn, data.start, data.end),
                        Ev("loadRange", data.requestId, <<data.start, data.end>>), 0,
                        Tail(toWorker))

WorkerFetchResponse ==
  \E id \in DOMAIN fetches :
    /\ fetches[id].stage = "pending"
    /\ WorkerStep(fetchResponded(Turn, id), Ev("response", id, <<>>), 0, toWorker)

WorkerFetchBody ==
  \E id \in DOMAIN fetches :
    /\ fetches[id].stage = "body"
    /\ WorkerStep(fetchCompleted(Turn, id), Ev("body", id, <<>>), 0, toWorker)

WorkerFetchFailure ==
  \E id \in DOMAIN fetches :
    WorkerStep(fetchRejected(Turn, id, "TransportFailure"), Ev("failure", id, <<>>), 0,
               toWorker)

NextLoader ==
  \/ LoadSource
  \/ EnsureRange
  \/ SetFiltersAndSort
  \/ Cancel
  \/ LoaderReset
  \/ MainReceive
  \/ WorkerReceive
  \/ WorkerFetchResponse
  \/ WorkerFetchBody
  \/ WorkerFetchFailure

SpecLoader == InitTable /\ [][NextLoader]_vars

(***************************************************************************)
(* C31: once setFiltersAndSort has been called, the rows of a rows message *)
(* that answers a loadRange issued before that call are neither written    *)
(* into state.rows nor added to the loaded rows.                           *)
(***************************************************************************)
C31_StaleRowsIgnored ==
  [][ (lastLoader'.type = "rows" /\ lastLoader'.requestId < freshFrom)
        => (stateRows' = stateRows /\ loadedRows' = loadedRows) ]_vars

\* nothing is in flight between the hook and its worker
LoaderAtRest == toWorker = <<>> /\ toMain = <<>> /\ Settled

(***************************************************************************)
(* C32: every promise returned by ensureRange resolves or rejects: none is *)
(* dropped unsettled with its client when cancel, reset or a new           *)
(* loadSource terminates the worker, and once nothing is in flight any     *)
(* more none is still pending.                                             *)
(***************************************************************************)
C32_PromisesSettle ==
  /\ abandoned = 0
  /\ (client # <<>> /\ LoaderAtRest) => \A id \in DOMAIN promises : promises[id] # "pending"

(***************************************************************************)
(* useCSVLoader streaming a CSV source through csvWorker: loadSource, the  *)
(* worker's onmessage, the animation frame that flushes the buffer, cancel *)
(* and reset, composed with csvWorker.  The worker handles the hook's      *)
(* messages in the order they were posted, and the hook handles the        *)
(* worker's messages in the order they were posted.                        *)
(***************************************************************************)
\* calls of loadSource, cancel and reset per run of a streamed load
MaxStreamCalls == 2

MAX_BUFFER_SIZE == 10000
\* batchSize of the load message
LoadBatchSize == 2000

\* MAX_BUFFER_SIZE for a load whose batches hold bs rows instead of LoadBatchSize
BufferLimit(bs) == (MAX_BUFFER_SIZE \div LoadBatchSize) * bs

\* a message of the hook to the csv worker
ToCsvWorker(type, id, k, bs) == [type |-> type, id |-> id, kind |-> k, batchSize |-> bs]

postToCsvWorker(c, type, id) ==
  [c EXCEPT !.outbox = Append(@, ToCsvWorker(type, id, "none", 0))]

BatchesIn(rows) == {rows[i].batch : i \in 1..Len(rows)}

\* flushStreamingRows without the splice: the buffer keeps its rows
flushStreamingRows_KeepsBuffer(c) ==
  IF c.streaming = <<>> THEN c
  ELSE LET s == c.streaming[1]
           c1 == [c EXCEPT !.rows = @ \o s.rowsBuffer,
                           !.moved = @ \cup BatchesIn(s.rowsBuffer)]
           acks == s.pendingBatchId # <<>> /\ c.worker
           c2 == IF acks
                 THEN [postToCsvWorker(c1, "ack", s.pendingBatchId[1]) EXCEPT
                         !.acksSent = Append(@, s.pendingBatchId[1])]
                 ELSE c1
           s1 == [s EXCEPT !.flushScheduled = FALSE,
                           !.pendingBatchId = IF acks THEN <<>> ELSE @]
       IN [c2 EXCEPT !.streaming = <<s1>>]

\* flushStreamingRows
flushStreamingRows(c) ==
  IF c.streaming = <<>> THEN c
  ELSE LET s == c.streaming[1]
           c1 == [c EXCEPT !.rows = @ \o s.rowsBuffer,
                           !.moved = @ \cup BatchesIn(s.rowsBuffer)]
           acks == s.pendingBatchId # <<>> /\ c.worker
           c2 == IF acks
                 THEN [postToCsvWorker(c1, "ack", s.pendingBatchId[1]) EXCEPT
                         !.acksSent = Append(@, s.pendingBatchId[1])]
                 ELSE c1
           resumes == s.isPaused /\ c.worker /\ 0 < c.limit
           c3 == IF resumes THEN postToCsvWorker(c2, "resume", 0) ELSE c2
           s1 == [s EXCEPT !.flushScheduled = FALSE, !.rowsBuffer = <<>>,
                           !.pendingBatchId = IF acks THEN <<>> ELSE @,
                           !.isPaused = IF resumes THEN FALSE ELSE @]
       IN [c3 EXCEPT !.streaming = <<s1>>]

\* w.onmessage, case "rows"
onCsvRows(c, data) ==
  IF c.streaming = <<>> THEN c
  ELSE LET s == c.streaming[1]
           buffer == s.rowsBuffer \o [i \in 1..Len(data.rows) |->
                                        BufferedRow(data.id, data.rows[i])]
           pauses == ~s.isPaused /\ Len(buffer) >= c.limit /\ c.worker
           c1 == IF pauses THEN postToCsvWorker(c, "pause", 0) ELSE c
           s1 == [s EXCEPT !.rowsBuffer = buffer, !.pendingBatchId = <<data.id>>,
                           !.isPaused = IF pauses THEN TRUE ELSE @,
                           !.flushScheduled = TRUE]
       IN [c1 EXCEPT !.streaming = <<s1>>, !.received = Append(@, data.id)]

\* w.onmessage, cases "done", "aborted" and "error"
onCsvEnd(c) ==
  [flushStreamingRows(c) EXCEPT !.streaming = <<>>, !.worker = FALSE]

\* w.onmessage
onCsvMessage(c, data) ==
  IF data.type = "rows" THEN onCsvRows(c, data)
  ELSE IF data.type \in {"done", "aborted", "error"} THEN onCsvEnd(c)
  ELSE c

\* loadSource of a CSV url or file that can be streamed
loadCsv(c, k, bs) ==
  [c EXCEPT !.worker = TRUE, !.streaming = <<NewStreamingState>>, !.rows = <<>>,
            !.limit = BufferLimit(bs),
            !.outbox = <<ToCsvWorker("load", 0, k, bs)>>,
            !.delivered = 0, !.received = <<>>, !.acksSent = <<>>, !.moved = {}]

\* cancel
cancelCsv(c) ==
  IF c.worker THEN postToCsvWorker(flushStreamingRows(c), "abort", 0) ELSE c

\* reset
resetCsv(c) ==
  [flushStreamingRows(c) EXCEPT !.rows = <<>>, !.worker = FALSE, !.streaming = <<>>]

\* the ways the byte source of a load delivers its bytes
SourceCuts ==
  {byteChunks \in Cuts(input) :
     /\ \A i \in 1..Len(byteChunks) : Len(byteChunks[i]) <= Len(byteChunks[1])
     /\ \A i \in 1..(Len(byteChunks) - 1) : Len(byteChunks[i]) = Len(byteChunks[1])}

\* a step of the hook that leaves the worker alone
ConsumerStep(c) ==
  /\ consumer' = c
  /\ UNCHANGED <<csvVars, tableVars, cacheVars, serverVars, tableLoaderVars>>

ConsumerCall(c) ==
  /\ consumer.calls < MaxStreamCalls
  /\ ConsumerStep([c EXCEPT !.calls = @ + 1])

\* loadSource: a new worker is created for the load
ConsumerLoad ==
  /\ consumer.calls < MaxStreamCalls
  /\ \E k \in {"file", "url"}, bs \in BatchSizes, byteChunks \in SourceCuts :
       /\ consumer' = [loadCsv(consumer, k, bs) EXCEPT !.calls = @ + 1]
       /\ Become(WorkerIdle(byteChunks))
  /\ lastMsg' = In("none", 0)
  /\ unreleased' = FALSE
  /\ acked' = {}
  /\ UNCHANGED <<tableVars, cacheVars, serverVars, tableLoaderVars>>

ConsumerCancel == consumer.worker /\ ConsumerCall(cancelCsv(consumer))

ConsumerReset == consumer.worker /\ ConsumerCall(resetCsv(consumer))

\* the callback given to requestAnimationFrame
AnimationFrame ==
  /\ consumer.streaming # <<>>
  /\ consumer.streaming[1].flushScheduled
  /\ ConsumerStep(flushStreamingRows(consumer))

\* w.onmessage receives the next message of the worker
ConsumerReceive ==
  /\ consumer.worker
  /\ consumer.delivered < Len(posted)
  /\ ConsumerStep(onCsvMessage([consumer EXCEPT !.delivered = @ + 1],
                               posted[consumer.delivered + 1]))

\* the worker's message listener receives the next message of the hook
CsvWorkerReceive ==
  /\ consumer.worker /\ consumer.outbox # <<>> /\ pc # "closed"
  /\ LET data == Head(consumer.outbox)
         w == IF data.type = "load" THEN OnLoad(W, data.kind, data.batchSize)
              ELSE IF data.type = "ack" THEN OnAck(W, data.id)
              ELSE IF data.type = "pause" THEN OnPause(W)
              ELSE IF data.type = "resume" THEN OnResume(W)
              ELSE OnAbort(W)
     IN StepCsv(w, In(data.type, data.id))
  /\ consumer' = [consumer EXCEPT !.outbox = Tail(@)]
  /\ UNCHANGED <<tableVars, cacheVars, serverVars, tableLoaderVars>>

\* the worker's own steps, while it has not been terminated
CsvFetchOk == consumer.worker /\ FetchOk

CsvFetchFail == consumer.worker /\ FetchFail

CsvSourceRead == consumer.worker /\ SourceRead

CsvSourceDone == consumer.worker /\ SourceDone

CsvSourceError == consumer.worker /\ SourceError

NextConsumer ==
  \/ ConsumerLoad
  \/ ConsumerCancel
  \/ ConsumerReset
  \/ AnimationFrame
  \/ ConsumerReceive
  \/ CsvWorkerReceive
  \/ CsvFetchOk
  \/ CsvFetchFail
  \/ CsvSourceRead
  \/ CsvSourceDone
  \/ CsvSourceError

SpecConsumer == InitCsv /\ [][NextConsumer]_vars

(***************************************************************************)
(* C33: in the composed system the consumer's rowsBuffer holds rows of at  *)
(* most one batch; the acks sent to the worker of the load are the ids of  *)
(* the batches received from it, in order and once each, the only batch    *)
(* without its ack being the pending one; and a batch is acked only after  *)
(* its rows were moved from the buffer into state.                         *)
(***************************************************************************)
C33_OneBatchOneAck ==
  /\ consumer.streaming # <<>> =>
       Cardinality(BatchesIn(consumer.streaming[1].rowsBuffer)) <= 1
  /\ IsPrefix(consumer.acksSent, consumer.received)
  /\ \A i \in 1..Len(consumer.received) :
       i > Len(consumer.acksSent) =>
         /\ i = Len(consumer.received)
         /\ consumer.streaming # <<>>
         /\ consumer.streaming[1].pendingBatchId = <<consumer.received[i]>>
  /\ \A i, j \in 1..Len(consumer.received) :
       consumer.received[i] = consumer.received[j] => i = j
  /\ \A i \in 1..Len(consumer.acksSent) :
       /\ consumer.acksSent[i] \in consumer.moved
       /\ consumer.streaming # <<>> =>
            consumer.acksSent[i] \notin BatchesIn(consumer.streaming[1].rowsBuffer)

\* a second batch has been received, moved to state and acked
C33_Witness ==
  /\ Len(consumer.acksSent) = 2
  /\ consumer.acksSent = consumer.received
  /\ BatchesIn(consumer.rows) = {consumer.acksSent[1], consumer.acksSent[2]}

====
